---- MODULE Spec2Model ----
(***************************************************************************)
(* A model of whatsapp_sdk:                                                *)
(*   - HTTPClient.request   (src/whatsapp_sdk/http_client.py)              *)
(*   - RateLimiter.acquire  (src/whatsapp_sdk/http_client.py)              *)
(*   - WhatsAppClient.validate_webhook_signature, verify_webhook_token,    *)
(*     _validate_phone_number, send_text, send_image, from_env             *)
(*     (src/whatsapp_sdk/client.py)                                        *)
(*   - WebhookEvent.from_payload (src/whatsapp_sdk/models/webhooks.py)     *)
(*   - Config (src/whatsapp_sdk/config.py)                                 *)
(*   - APIError.from_response (src/whatsapp_sdk/exceptions.py)             *)
(* The specifications share the module and its variables: SpecReq (one     *)
(* logical request), SpecRL / FairSpecRL (concurrent callers of one        *)
(* RateLimiter), SpecSig (webhook signature validation), SpecTok (webhook  *)
(* handshake), SpecWh (webhook flattening), SpecPhone (phone numbers),     *)
(* SpecSend (send_text / send_image down to the transport), SpecCfg        *)
(* (Config objects), SpecEnv (from_env), SpecCls (error classification),   *)
(* FairSpecReq (one request run to its end), SpecConc (two requests on one *)
(* HTTPClient), SpecCancel (a request cancelled at an await) and           *)
(* SpecClient (the operations of a WhatsAppClient on its credentials).     *)
(***************************************************************************)
EXTENDS Integers, Sequences, FiniteSets, TLC

VARIABLES
    \* ---- HTTPClient.request ----
    max_retries,      \* self.max_retries
    pc,               \* position of the request coroutine
    attempt,          \* loop variable of `for attempt in range(self.max_retries)`
    last_exception,   \* local last_exception (exception class name or "None")
    log,              \* what each HTTP attempt met: <<[kind, status], ...>>
    resp,             \* the response (or transport failure) of the latest attempt
    sleeps,           \* durations of the asyncio.sleep calls made so far
    acquires,         \* number of calls of self._rate_limiter.acquire()
    outcome,          \* "pending" | "returned" | "raised"
    error,            \* the exception that left request()
    returned,         \* the value request() returned
    \* ---- RateLimiter ----
    calls_per_second, \* self.calls_per_second
    elapsed,          \* time.time() - self.reset_time, in ticks, capped at one second
    semaphore,        \* self.semaphore: the identity of the current Semaphore object
    sem_value,        \* Semaphore._value of every Semaphore object
    sem_waiters,      \* Semaphore._waiters (FIFO) of every Semaphore object
    rl_pc,            \* position of each caller inside acquire()
    rl_sem,           \* the Semaphore object each caller entered `async with` on
    rl_timer,         \* remaining ticks of each caller's asyncio.sleep
    rl_crossed,       \* a window reset happened while the caller's current/last acquire was queued
    rl_calls,         \* number of calls of acquire() so far
    grant_log,        \* grants of the last second: age in ticks -> number of grants
    \* ---- validate_webhook_signature ----
    app_secret,       \* self.app_secret
    sig_signature,    \* argument `signature` of the latest call
    sig_payload,      \* argument `payload` of the latest call
    sig_outcome,      \* "none" | "True" | "False" | name of the exception raised
    \* ---- verify_webhook_token ----
    webhook_verify_token, \* self.webhook_verify_token
    tok_token,        \* argument `token` of the latest call
    tok_outcome,      \* "none" | "True" | "False"
    \* ---- WebhookEvent.from_payload ----
    wh_payload,       \* argument `payload`: its entries, their changes, their values
    wh_event,         \* the WebhookEvent returned
    \* ---- phone number validation ----
    ph_phone,         \* the phone number passed in
    ph_client,        \* what WhatsAppClient._validate_phone_number did with it
    ph_model,         \* what Message.validate_phone_number did with it
    \* ---- send_text / send_image ----
    send_call,        \* the latest call: operation and arguments
    send_outcome,     \* "none" | "posted" | name of the exception raised before the post
    \* ---- Config ----
    cfg,              \* the Config object held (None before the first construction)
    cfg_op,           \* the latest construction or assignment
    cfg_outcome,      \* "none" | "ok" | "ValidationError"
    \* ---- WhatsAppClient.from_env ----
    environ,          \* os.environ: the variables from_env reads
    env_outcome,      \* what from_env did
    \* ---- error classification ----
    cls_call,         \* the latest classification: status and body
    cls_result,       \* what it produced
    \* ---- concurrent requests on one HTTPClient ----
    cr_pc,            \* position of each request coroutine
    cr_attempt,       \* each request's local `attempt`
    cr_last,          \* each request's local `last_exception`
    cr_log,           \* the responses each request's own attempts met
    cr_result,        \* how each request ended
    \* ---- cancellation of a request ----
    cancelled_in,     \* "none", or where the request was suspended when cancelled
    \* ---- WhatsAppClient: credentials and operations ----
    phone_number_id,  \* self.phone_number_id
    access_token,     \* self.access_token
    cl_op,            \* the latest operation called on the client
    cl_result,        \* "none" | "returned" | name of the exception it raised
    cl_closed         \* the httpx client has been closed

reqVars == <<max_retries, pc, attempt, last_exception, log, resp, sleeps,
             acquires, outcome, error, returned>>
rlVars  == <<calls_per_second, elapsed, semaphore, sem_value, sem_waiters,
             rl_pc, rl_sem, rl_timer, rl_crossed, rl_calls, grant_log>>
sigVars == <<app_secret, sig_signature, sig_payload, sig_outcome>>
tokVars == <<webhook_verify_token, tok_token, tok_outcome>>
whVars  == <<wh_payload, wh_event>>
phVars  == <<ph_phone, ph_client, ph_model>>
sendVars == <<send_call, send_outcome>>
cfgVars == <<cfg, cfg_op, cfg_outcome>>
envVars == <<environ, env_outcome>>
clsVars == <<cls_call, cls_result>>
crVars  == <<cr_pc, cr_attempt, cr_last, cr_log, cr_result>>
cnVars  == <<cancelled_in>>
clVars  == <<phone_number_id, access_token, cl_op, cl_result, cl_closed>>
extVars == <<crVars, cnVars, clVars>>
auxVars == <<tokVars, whVars, phVars, sendVars, cfgVars, envVars, clsVars,
             extVars>>
vars    == <<reqVars, rlVars, sigVars, auxVars>>

\* Python's None for an optional value, and a present value.
None == {}
Some(v) == {v}

(***************************************************************************)
(* Bounds of the model.                                                    *)
(***************************************************************************)
MaxRetries == 3     \* max_retries ranges over 0..MaxRetries
MaxRate    == 2     \* calls_per_second ranges over 1..MaxRate
NumCallers == 3     \* concurrent callers of RateLimiter.acquire
MaxCalls   == 3     \* calls of RateLimiter.acquire in one run
MaxTokLen  == 2     \* verify tokens have at most MaxTokLen characters
MaxEntries == 2     \* a webhook payload has at most MaxEntries entries
MaxChanges == 2     \* a webhook entry has at most MaxChanges changes
MaxRun     == 8     \* a phone number has two runs of at most MaxRun digits
MaxSendRetries == 2 \* max_retries of the client that send_text / send_image use
MaxConcRetries == 2 \* max_retries of the HTTPClient that concurrent requests share

(***************************************************************************)
(* Strings are sequences of one-character strings.                         *)
(***************************************************************************)
Digits == <<"0", "1", "2", "3", "4", "5", "6", "7", "8", "9">>

IsDigit(c) == \E i \in 1..Len(Digits) : Digits[i] = c

DigitVal(c) == (CHOOSE i \in 1..Len(Digits) : Digits[i] = c) - 1

RECURSIVE DecimalValue(_)
DecimalValue(s) ==
    IF s = <<>> THEN 0
    ELSE 10 * DecimalValue(SubSeq(s, 1, Len(s) - 1)) + DigitVal(s[Len(s)])

\* int(x) at http_client.py:87: x is the int default 60 or the header string.
\* A string that is not a run of decimal digits raises ValueError (sign,
\* surrounding blanks and "_" separators, which int() also reads, do not occur
\* among the headers enumerated below).
DefaultRetryAfter == 60

int_ok(s) == s # <<>> /\ \A i \in 1..Len(s) : IsDigit(s[i])

(***************************************************************************)
(* HTTP responses, as HTTPClient.request reads them.                       *)
(***************************************************************************)
\* A response body. json: response.json() parses it; map: the parsed value is
\* a dict; has_error: it has the key "error"; error_map: that value is a dict
\* (the vendor envelope), whose keys message, code, error_subcode, error_data
\* are present (Some) or absent (None). tag tells two bodies apart.
Body(j, m, he, em, msg, c, sub, d, t) ==
    [json |-> j, map |-> m, has_error |-> he, error_map |-> em,
     message |-> msg, code |-> c, error_subcode |-> sub, error_data |-> d,
     tag |-> t]

NotJsonBody == Body(FALSE, FALSE, FALSE, FALSE, None, None, None, None, "text")
ListBody    == Body(TRUE, FALSE, FALSE, FALSE, None, None, None, None, "list")
DictBodies  ==
    { Body(TRUE, TRUE, FALSE, FALSE, None, None, None, None, t) : t \in {"a", "b"} }
ErrorStringBody == Body(TRUE, TRUE, TRUE, FALSE, None, None, None, None, "errstr")
Envelopes ==
    { Body(TRUE, TRUE, TRUE, TRUE, msg, c, sd[1], sd[2], "envelope") :
        msg \in {None, Some("Invalid parameter")},
        c \in {None, Some("100")},
        sd \in {<<None, None>>, <<Some(33), Some("details")>>} }

Bodies == {NotJsonBody, ListBody, ErrorStringBody} \cup DictBodies \cup Envelopes

Statuses == {200, 304, 400, 401, 403, 404, 429, 500, 503}

\* Values of the Retry-After header: absent, a number of seconds, an HTTP-date.
RetryAfterHeaders ==
    {None, Some(<<"3", "0">>), Some(<<"7">>), Some(<<"W", "e", "d">>)}

\* Subclasses of httpx.RequestError that self.client.request() raises.
RequestErrors == {"ConnectError", "ReadTimeout"}

NoBody == Body(FALSE, FALSE, FALSE, FALSE, None, None, None, None, "none")

NoResponse ==
    [kind |-> "none", exc |-> "None", status |-> 0, retry_after |-> None,
     body |-> NoBody]

\* What one call of self.client.request() can meet.
Responses ==
    { [kind |-> "response", exc |-> "None", status |-> st, retry_after |-> h,
       body |-> b] : st \in Statuses, h \in RetryAfterHeaders, b \in Bodies }
    \cup
    { [kind |-> "neterr", exc |-> x, status |-> 0, retry_after |-> None,
       body |-> NoBody] : x \in RequestErrors }

(***************************************************************************)
(* Exceptions (exceptions.py).                                             *)
(***************************************************************************)
\* WhatsAppError.__init__ and its subclasses: message, code, details
\* (`details or {}`: None is the empty dict), APIError.status_code,
\* RateLimitError.retry_after; cause is the exception it was raised from.
Exc(k, msg, c, sc, d, ra, cause) ==
    [kind |-> k, message |-> msg, code |-> c, status_code |-> sc,
     details |-> d, retry_after |-> ra, cause |-> cause]

NoError == Exc("None", "", None, None, None, None, "None")

\* An exception of httpx or of the interpreter, by its class name.
Foreign(k) == Exc(k, "", None, None, None, None, "None")

\* dict.get(key, default) on an optional key.
Get(opt, default) == IF opt = None THEN default ELSE CHOOSE x \in opt : TRUE

\* APIError.from_response(response): response.get("error", {}) then four
\* error.get(...); .get on a value that is no dict raises AttributeError.
APIError_from_response(body) ==
    IF ~body.map THEN Foreign("AttributeError")
    ELSE IF body.has_error /\ ~body.error_map THEN Foreign("AttributeError")
    ELSE Exc("APIError", Get(body.message, "Unknown API error"), body.code,
             body.error_subcode, body.error_data, None, "HTTPStatusError")

(***************************************************************************)
(* HTTPClient.request: one iteration of the retry loop.                    *)
(***************************************************************************)
Returns(v) == [exit |-> "return", value |-> v, exc |-> NoError]
Raises(e)  == [exit |-> "raise", value |-> NoBody, exc |-> e]

\* response.json(): the parsed body, or json.JSONDecodeError.
response_json(r) ==
    IF r.body.json THEN Returns(r.body) ELSE Raises(Foreign("JSONDecodeError"))

\* Lines 86-88: int(response.headers.get("Retry-After", 60)), then the raise.
rate_limit_check(r) ==
    IF r.retry_after = None
    THEN Raises(Exc("RateLimitError", "Rate limit exceeded", None, None, None,
                    Some(DefaultRetryAfter), "None"))
    ELSE LET h == Get(r.retry_after, <<>>) IN
         IF int_ok(h)
         THEN Raises(Exc("RateLimitError", "Rate limit exceeded", None, None,
                         None, Some(DecimalValue(h)), "None"))
         ELSE Raises(Foreign("ValueError"))

\* Lines 91-98: error_data = response.json(); error_data.get("error", {})
\* .get("message", "Authentication failed"); raise AuthenticationError.
authentication_check(r) ==
    LET j == response_json(r) IN
    IF j.exit = "raise" THEN j
    ELSE IF ~r.body.map THEN Raises(Foreign("AttributeError"))
    ELSE IF r.body.has_error /\ ~r.body.error_map
         THEN Raises(Foreign("AttributeError"))
    ELSE Raises(Exc("AuthenticationError",
                    Get(r.body.message, "Authentication failed"),
                    Some(ToString(r.status)), None, None, None, "None"))

\* A variant of raise_for_status that never raises.
raise_for_status_never(r) == Returns(NoBody)

\* response.raise_for_status() of httpx: HTTPStatusError unless 2xx (a 3xx
\* response that is not followed, such as 304, raises as well).
raise_for_status(r) ==
    IF r.status >= 200 /\ r.status < 300
    THEN Returns(NoBody)
    ELSE Raises(Foreign("HTTPStatusError"))

\* The body of the try statement, lines 76-104.
try_body(r) ==
    IF r.kind = "neterr" THEN Raises(Foreign(r.exc))
    ELSE IF r.status = 429 THEN rate_limit_check(r)
    ELSE IF r.status \in {401, 403} THEN authentication_check(r)
    ELSE IF raise_for_status(r).exit = "raise" THEN raise_for_status(r)
    ELSE response_json(r)

\* Which except clause of lines 106-140 takes an exception raised in the try
\* body: the first whose class the exception is an instance of.
except_clause(e) ==
    IF e.kind = "HTTPStatusError" THEN "httpx.HTTPStatusError"
    ELSE IF e.kind \in RequestErrors THEN "httpx.RequestError"
    ELSE IF e.kind = "RateLimitError" THEN "RateLimitError"
    ELSE "Exception"

\* Lines 109-111: the inner try. Whatever it does, it ends in an exception:
\* the one of e.response.json(), the one of from_response, or the APIError
\* that `raise APIError.from_response(error_data) from e` raises.
inner_try(r) ==
    LET j == response_json(r) IN
    IF j.exit = "raise" THEN j.exc ELSE APIError_from_response(r.body)

\* Lines 112-116: `except Exception:` of the inner try takes every exception
\* of the inner try, the APIError of line 111 included, and raises the
\* APIError of str(e) and the HTTP status code instead.
inner_except(r, raised) ==
    Exc("APIError", "str(HTTPStatusError)", None, Some(r.status), None, None,
        "HTTPStatusError")

Pow2(n) == 2 ^ n

\* One pass through the loop body for the response r: what happens next
\* ("return", "raise", "sleep" then continue, or "continue" at once) and the
\* new value of last_exception.
Step(nx, v, e, sl, le) ==
    [next |-> nx, value |-> v, exc |-> e, sleep |-> sl, last_exception |-> le]

\* Lines 106-124: `except httpx.HTTPStatusError as e`.
on_HTTPStatusError(r, att, mr, le) ==
    IF r.status >= 400
    THEN Step("raise", NoBody, inner_except(r, inner_try(r)), 0, le)
    ELSE IF r.status >= 500
    THEN IF att < mr - 1
         THEN Step("sleep", NoBody, NoError, Pow2(att), "HTTPStatusError")
         ELSE Step("raise", NoBody,
                   Exc("NetworkError", "Server error after retries", None, None,
                       None, None, "HTTPStatusError"), 0, "HTTPStatusError")
    ELSE Step("continue", NoBody, NoError, 0, le)

\* A variant of on_RequestError that gives up one attempt early.
on_RequestError_early(e, att, mr, le) ==
    IF att < mr - 2
    THEN Step("sleep", NoBody, NoError, Pow2(att), e.kind)
    ELSE Step("raise", NoBody,
              Exc("NetworkError", "Network error after retries", None, None,
                  None, None, e.kind), 0, e.kind)

\* A variant of on_RequestError that sleeps after the last attempt as well.
on_RequestError_sleep_last(e, att, mr, le) ==
    Step("sleep", NoBody, NoError, Pow2(att), e.kind)

\* Lines 126-132: `except httpx.RequestError as e`.
on_RequestError(e, att, mr, le) ==
    IF att < mr - 1
    THEN Step("sleep", NoBody, NoError, Pow2(att), e.kind)
    ELSE Step("raise", NoBody,
              Exc("NetworkError", "Network error after retries", None, None,
                  None, None, e.kind), 0, e.kind)

\* A variant of on_Exception that records the exception and goes on with
\* the next iteration instead of raising.
on_Exception_swallow(e, le) ==
    Step("continue", NoBody, NoError, 0, e.kind)

\* A variant of on_Exception that lets the exception through as it is.
on_Exception_reraise(e, le) == Step("raise", NoBody, e, 0, le)

\* Lines 138-140: `except Exception as e`.
on_Exception(e, le) ==
    Step("raise", NoBody,
         Exc("NetworkError", "Unexpected error", None, None, None, None, e.kind),
         0, le)

\* Lines 75-140: the try statement of one loop iteration.
iteration(r, att, mr, le) ==
    LET t == try_body(r) IN
    IF t.exit = "return" THEN Step("return", t.value, NoError, 0, le)
    ELSE LET clause == except_clause(t.exc) IN
         IF clause = "httpx.HTTPStatusError" THEN on_HTTPStatusError(r, att, mr, le)
         ELSE IF clause = "httpx.RequestError" THEN on_RequestError(t.exc, att, mr, le)
         ELSE IF clause = "RateLimitError" THEN Step("raise", NoBody, t.exc, 0, le)
         ELSE on_Exception(t.exc, le)

\* A variant of after_loop without the test of last_exception.
after_loop_last(le) ==
    Exc("NetworkError", "Request failed after retries", None, None, None,
        None, le)

\* Lines 142-148: after the loop.
after_loop(le) ==
    IF le # "None"
    THEN Exc("NetworkError", "Request failed after retries", None, None, None,
             None, le)
    ELSE Exc("NetworkError", "Request failed for unknown reason", None, None,
             None, None, "None")

(***************************************************************************)
(* HTTPClient.request as a state machine (specification SpecReq).          *)
(***************************************************************************)
Callers == 1..NumCallers

\* Identities for Semaphore objects: the current one and one per caller
\* that may still be inside `async with` on an older one.
SemIds == 0..NumCallers

\* One second, in clock ticks: a tick is the hold time of a permit,
\* 1.0 / calls_per_second seconds (line 219).
TicksPerSecond(n) == n

\* RateLimiter.__init__ (lines 203-206) for calls_per_second = n.
RLConstructed(n) ==
    /\ calls_per_second = n
    /\ elapsed = 0
    /\ semaphore = 0
    /\ sem_value = [s \in SemIds |-> n]
    /\ sem_waiters = [s \in SemIds |-> <<>>]
    /\ rl_pc = [c \in Callers |-> "idle"]
    /\ rl_sem = [c \in Callers |-> 0]
    /\ rl_timer = [c \in Callers |-> 0]
    /\ rl_crossed = [c \in Callers |-> FALSE]
    /\ rl_calls = 0

\* The history of grants is empty (and stays so: nothing is recorded).
NoGrantLog == [a \in {} |-> 0]

\* The rate limiter and the webhook verifier at rest.
RLAtRest == RLConstructed(1) /\ grant_log = NoGrantLog

SigAtRest ==
    /\ app_secret = None
    /\ sig_signature = <<>>
    /\ sig_payload = <<>>
    /\ sig_outcome = "none"

ReqAtRest ==
    /\ max_retries = 0
    /\ pc = "start"
    /\ attempt = 0
    /\ last_exception = "None"
    /\ log = <<>>
    /\ resp = NoResponse
    /\ sleeps = <<>>
    /\ acquires = 0
    /\ outcome = "pending"
    /\ error = NoError
    /\ returned = NoBody

\* The remaining operations before their first call.
TokAtRest ==
    /\ webhook_verify_token = None
    /\ tok_token = <<>>
    /\ tok_outcome = "none"

NoEvent == [built |-> FALSE, messages |-> <<>>, statuses |-> <<>>, errors |-> <<>>]

WhAtRest == wh_payload = <<>> /\ wh_event = NoEvent

NotCalled == [exit |-> "none", value |-> <<>>, exc |-> "None"]

PhAtRest == ph_phone = <<>> /\ ph_client = NotCalled /\ ph_model = NotCalled

NoCall == [op |-> "none", to |-> <<>>, body |-> <<>>, caption |-> None, image |-> "str"]

SendAtRest == send_call = NoCall /\ send_outcome = "none"

NoCfgOp ==
    [op |-> "none", field |-> "none", timeout |-> None, max_retries |-> None,
     rate_limit |-> None]

CfgAtRest == cfg = None /\ cfg_op = NoCfgOp /\ cfg_outcome = "none"

NoEnviron ==
    [WHATSAPP_PHONE_NUMBER_ID |-> None, WHATSAPP_ACCESS_TOKEN |-> None,
     WHATSAPP_APP_SECRET |-> None, WHATSAPP_WEBHOOK_VERIFY_TOKEN |-> None,
     WHATSAPP_TIMEOUT |-> None, WHATSAPP_MAX_RETRIES |-> None,
     WHATSAPP_RATE_LIMIT |-> None]

NoClient ==
    [phone_number_id |-> None, access_token |-> None, app_secret |-> None,
     webhook_verify_token |-> None, config |-> None]

NotRun == [exit |-> "none", exc |-> "None", message |-> "", client |-> NoClient]

EnvAtRest == environ = NoEnviron /\ env_outcome = NotRun

NoClassification == [op |-> "none", status |-> 0, body |-> NoBody]

NotClassified == [exit |-> "none", exc |-> NoError, from_response |-> "none"]

ClsAtRest == cls_call = NoClassification /\ cls_result = NotClassified

\* How a call of request() stands: pending, returned a body, or raised.
Result(o, e, v) == [outcome |-> o, error |-> e, returned |-> v]

Pending == Result("pending", NoError, NoBody)

\* The coroutines that call request() on one HTTPClient concurrently.
Requests == {"A", "B"}

CrAtRest ==
    /\ cr_pc = [q \in Requests |-> "start"]
    /\ cr_attempt = [q \in Requests |-> 0]
    /\ cr_last = [q \in Requests |-> "None"]
    /\ cr_log = [q \in Requests |-> <<>>]
    /\ cr_result = [q \in Requests |-> Pending]

CnAtRest == cancelled_in = "none"

ClAtRest ==
    /\ phone_number_id = <<>>
    /\ access_token = <<>>
    /\ cl_op = "none"
    /\ cl_result = "none"
    /\ cl_closed = FALSE

ExtAtRest == CrAtRest /\ CnAtRest /\ ClAtRest

AuxAtRest ==
    /\ ExtAtRest
    /\ TokAtRest
    /\ WhAtRest
    /\ PhAtRest
    /\ SendAtRest
    /\ CfgAtRest
    /\ EnvAtRest
    /\ ClsAtRest

\* HTTPClient.__init__ (lines 28-33), then request() is called.
InitReq ==
    /\ max_retries \in 0..MaxRetries
    /\ pc = "start"
    /\ attempt = 0
    /\ last_exception = "None"
    /\ log = <<>>
    /\ resp = NoResponse
    /\ sleeps = <<>>
    /\ acquires = 0
    /\ outcome = "pending"
    /\ error = NoError
    /\ returned = NoBody
    /\ RLAtRest
    /\ SigAtRest
    /\ AuxAtRest

\* Lines 64-73: await self._rate_limiter.acquire(); last_exception = None;
\* the loop starts at attempt 0.
ReqAcquire ==
    /\ pc = "start"
    /\ acquires' = acquires + 1
    /\ last_exception' = "None"
    /\ attempt' = 0
    /\ pc' = "loop"
    /\ UNCHANGED <<max_retries, log, resp, sleeps, outcome, error, returned>>
    /\ UNCHANGED <<rlVars, sigVars, auxVars>>

\* Lines 74-140: one iteration of the loop, the HTTP call meeting r.
ReqAttempt(r) ==
    /\ pc = "loop"
    /\ attempt < max_retries
    /\ LET it == iteration(r, attempt, max_retries, last_exception) IN
       /\ log' = Append(log, [kind |-> r.kind, status |-> r.status])
       /\ resp' = r
       /\ last_exception' = it.last_exception
       /\ \/ /\ it.next = "return"
             /\ outcome' = "returned"
             /\ returned' = it.value
             /\ pc' = "done"
             /\ UNCHANGED <<error, sleeps, attempt>>
          \/ /\ it.next = "raise"
             /\ outcome' = "raised"
             /\ error' = it.exc
             /\ pc' = "done"
             /\ UNCHANGED <<returned, sleeps, attempt>>
          \/ /\ it.next = "sleep"
             /\ sleeps' = Append(sleeps, it.sleep)
             /\ pc' = "sleeping"
             /\ UNCHANGED <<outcome, error, returned, attempt>>
          \/ /\ it.next = "continue"
             /\ attempt' = attempt + 1
             /\ pc' = "loop"
             /\ UNCHANGED <<outcome, error, returned, sleeps>>
    /\ UNCHANGED <<max_retries, acquires>>
    /\ UNCHANGED <<rlVars, sigVars, auxVars>>

\* A variant of ReqWake that acquires a permit again before the retry.
ReqWake_reacquire ==
    /\ pc = "sleeping"
    /\ attempt' = attempt + 1
    /\ acquires' = acquires + 1
    /\ pc' = "loop"
    /\ UNCHANGED <<max_retries, last_exception, log, resp, sleeps,
                   outcome, error, returned>>
    /\ UNCHANGED <<rlVars, sigVars, auxVars>>

\* Lines 122-123 and 130-131: asyncio.sleep returns, `continue`.
ReqWake ==
    /\ pc = "sleeping"
    /\ attempt' = attempt + 1
    /\ pc' = "loop"
    /\ UNCHANGED <<max_retries, last_exception, log, resp, sleeps, acquires,
                   outcome, error, returned>>
    /\ UNCHANGED <<rlVars, sigVars, auxVars>>

\* Lines 142-148: range(self.max_retries) is exhausted.
ReqExhausted ==
    /\ pc = "loop"
    /\ attempt >= max_retries
    /\ outcome' = "raised"
    /\ error' = after_loop(last_exception)
    /\ pc' = "done"
    /\ UNCHANGED <<max_retries, attempt, last_exception, log, resp, sleeps,
                   acquires, returned>>
    /\ UNCHANGED <<rlVars, sigVars, auxVars>>

NextReq ==
    \/ ReqAcquire
    \/ \E r \in Responses : ReqAttempt(r)
    \/ ReqWake
    \/ ReqExhausted

SpecReq == InitReq /\ [][NextReq]_vars

(***************************************************************************)
(* Properties of HTTPClient.request (checked under SpecReq).               *)
(***************************************************************************)
ReqDone == pc = "done"

\* Every attempt so far met a response with this status.
EveryAttemptStatus(st) ==
    /\ log # <<>>
    /\ \A i \in 1..Len(log) : log[i].kind = "response" /\ log[i].status = st

\* Every attempt so far ended in an httpx.RequestError.
EveryAttemptNetErr ==
    /\ log # <<>>
    /\ \A i \in 1..Len(log) : log[i].kind = "neterr"

Is2xx(st) == st >= 200 /\ st < 300

\* C1: against a server that answers every attempt with HTTP 500, a finished
\* request has made exactly max_retries HTTP attempts and has failed with
\* NetworkError.
C1_Retry500ThenNetworkError ==
    (ReqDone /\ EveryAttemptStatus(500)) =>
        /\ Len(log) = max_retries
        /\ outcome = "raised"
        /\ error.kind = "NetworkError"

NoRetryStatuses == {400, 401, 403, 404, 429}

\* C2: when the first response has status 400, 401, 403, 404 or 429 the
\* request is over after that single attempt: it has raised, there was no
\* backoff sleep and no second attempt, whatever max_retries is.
C2_NoRetryOnClientError ==
    (log # <<>> /\ log[1].kind = "response" /\ log[1].status \in NoRetryStatuses) =>
        /\ Len(log) = 1
        /\ sleeps = <<>>
        /\ ReqDone
        /\ outcome = "raised"

C2_Witness ==
    /\ ReqDone
    /\ max_retries >= 2
    /\ Len(log) = 1
    /\ log[1].kind = "response"
    /\ log[1].status = 401
    /\ outcome = "raised"

\* C3: a request that ended on a 401 or 403 response has raised
\* AuthenticationError.
C3_AuthenticationErrorKind ==
    (ReqDone /\ resp.kind = "response" /\ resp.status \in {401, 403}) =>
        /\ outcome = "raised"
        /\ error.kind = "AuthenticationError"

\* C4: a request that ended on a 429 response, whatever its headers, has
\* raised RateLimitError whose retry_after is the number in the Retry-After
\* header, or 60 when the header is absent.
C4_RateLimitErrorRetryAfter ==
    (ReqDone /\ resp.kind = "response" /\ resp.status = 429) =>
        /\ outcome = "raised"
        /\ error.kind = "RateLimitError"
        /\ \/ resp.retry_after = None /\ error.retry_after = Some(DefaultRetryAfter)
           \/ /\ resp.retry_after # None
              /\ int_ok(Get(resp.retry_after, <<>>))
              /\ error.retry_after = Some(DecimalValue(Get(resp.retry_after, <<>>)))

\* C5: a request that ended on a 4xx response other than 401/403/429 whose
\* body is a well-formed vendor envelope has raised an APIError carrying the
\* envelope's message (or "Unknown API error"), code and error_data, and the
\* HTTP status code of the response.
C5_APIErrorCarriesEnvelope ==
    (/\ ReqDone
     /\ resp.kind = "response"
     /\ resp.status >= 400 /\ resp.status < 500
     /\ resp.status \notin {401, 403, 429}
     /\ resp.body \in Envelopes) =>
        /\ outcome = "raised"
        /\ error.kind = "APIError"
        /\ error.message = Get(resp.body.message, "Unknown API error")
        /\ error.code = resp.body.code
        /\ error.details = resp.body.error_data
        /\ error.status_code = Some(resp.status)

\* C6: while every attempt ends in an httpx.RequestError the request goes on
\* to exactly max_retries attempts and then raises NetworkError wrapping the
\* last failure; a 2xx response with a JSON body on any attempt ends the
\* request at once with that body, and no attempt follows a 2xx response.
C6_NetworkErrorRetries ==
    /\ EveryAttemptNetErr =>
          /\ Len(log) <= max_retries
          /\ ReqDone <=> (Len(log) = max_retries)
          /\ ReqDone =>
                /\ outcome = "raised"
                /\ error.kind = "NetworkError"
                /\ error.cause = resp.exc
    /\ \A i \in 1..Len(log) :
          (log[i].kind = "response" /\ Is2xx(log[i].status)) =>
              /\ i = Len(log)
              /\ ReqDone
              /\ resp.body.json => (outcome = "returned" /\ returned = resp.body)

C6_Witness ==
    /\ ReqDone
    /\ EveryAttemptNetErr
    /\ max_retries >= 2
    /\ Len(log) = max_retries
    /\ error.kind = "NetworkError"

(***************************************************************************)
(* RateLimiter (specifications SpecRL and FairSpecRL).                     *)
(*                                                                         *)
(* The callers are coroutines of one event loop: code between two awaits   *)
(* that suspend runs atomically. asyncio.Lock.acquire does not suspend     *)
(* when the lock is free, and the locked block (lines 211-215) contains no *)
(* await, so the lock is always free at entry and lines 210-217 up to the  *)
(* wait on the semaphore are one step. asyncio.Semaphore is a counter with *)
(* a FIFO queue of waiters; release() hands the permit to the first waiter.*)
(* Time is counted in ticks; a sleeping coroutine resumes at or after the  *)
(* end of its sleep.                                                       *)
(***************************************************************************)
\* SpecRL records, for the last second, how many permits were granted at
\* each tick.
InitRL ==
    /\ \E n \in 1..MaxRate :
          /\ RLConstructed(n)
          /\ grant_log = [a \in 0..(TicksPerSecond(n) - 1) |-> 0]
    /\ ReqAtRest
    /\ SigAtRest
    /\ AuxAtRest

\* FairSpecRL does not record the grants.
InitRLFair ==
    /\ \E n \in 1..MaxRate : RLConstructed(n)
    /\ grant_log = NoGrantLog
    /\ ReqAtRest
    /\ SigAtRest
    /\ AuxAtRest

\* A variant of window_expired: every call of acquire resets the window.
window_expired_always == TRUE

\* Line 212: current - self.reset_time >= 1.
window_expired == elapsed >= TicksPerSecond(calls_per_second)

\* Semaphore objects something still refers to.
LiveSems == {semaphore} \cup {rl_sem[c] : c \in {d \in Callers : rl_pc[d] # "idle"}}

\* Line 215: asyncio.Semaphore(self.calls_per_second) is a new object.
NewSem == CHOOSE s \in SemIds : s \notin LiveSems /\ \A t \in SemIds : t \notin LiveSems => s <= t

\* A Semaphore object nothing refers to any more is garbage: its slot is
\* put back to the state of a new object.
Collect(val, live) ==
    [s \in SemIds |-> IF s \in live THEN val[s] ELSE calls_per_second]

\* One more grant at the present instant.
Granted(gl) == [a \in DOMAIN gl |-> IF a = 0 THEN gl[a] + 1 ELSE gl[a]]

\* A variant of release_target: __aexit__ on whatever self.semaphore is now.
release_target_current(c) == semaphore

\* Lines 217-219: `async with self.semaphore` evaluates self.semaphore once;
\* __aexit__ releases that same object.
release_target(c) == rl_sem[c]

\* Lines 210-217: the locked block, then Semaphore.acquire() on the current
\* semaphore: a permit at once when one is free and nobody queues, else the
\* caller queues.
RLEnterStep(c) ==
    /\ rl_pc[c] = "idle"
    /\ rl_calls < MaxCalls
    /\ rl_calls' = rl_calls + 1
    /\ LET reset == window_expired
           s     == IF reset THEN NewSem ELSE semaphore
           val   == IF reset THEN [sem_value EXCEPT ![s] = calls_per_second]
                    ELSE sem_value
           wts   == IF reset THEN [sem_waiters EXCEPT ![s] = <<>>]
                    ELSE sem_waiters
           free  == val[s] > 0 /\ wts[s] = <<>>
           live  == {s} \cup {rl_sem[d] : d \in {x \in Callers : rl_pc[x] # "idle"}}
       IN
       /\ elapsed' = IF reset THEN 0 ELSE elapsed
       /\ semaphore' = s
       /\ rl_sem' = [rl_sem EXCEPT ![c] = s]
       /\ rl_crossed' =
             [d \in Callers |->
                 IF d = c THEN FALSE
                 ELSE IF reset /\ rl_pc[d] = "waiting" THEN TRUE
                 ELSE rl_crossed[d]]
       /\ IF free
          THEN /\ sem_value' = Collect([val EXCEPT ![s] = @ - 1], live)
               /\ sem_waiters' = wts
               /\ rl_pc' = [rl_pc EXCEPT ![c] = "holding"]
               /\ rl_timer' = [rl_timer EXCEPT ![c] = 1]
               /\ grant_log' = Granted(grant_log)
          ELSE /\ sem_value' = Collect(val, live)
               /\ sem_waiters' = [wts EXCEPT ![s] = Append(@, c)]
               /\ rl_pc' = [rl_pc EXCEPT ![c] = "waiting"]
               /\ UNCHANGED <<rl_timer, grant_log>>
    /\ UNCHANGED calls_per_second

\* A call of acquire by a caller other than a request under study.
RLEnter(c) == RLEnterStep(c) /\ UNCHANGED <<reqVars, sigVars, auxVars>>

\* `async with self.semaphore` is left: __aexit__ releases the permit. The
\* first waiter of that semaphore, if any, obtains the permit and starts its
\* own sleep.
aexit(c) ==
    /\ LET s    == release_target(c)
           live == {semaphore} \cup
                   {rl_sem[d] : d \in {x \in Callers : x # c /\ rl_pc[x] # "idle"}}
       IN
       IF sem_waiters[s] # <<>>
       THEN LET w == Head(sem_waiters[s]) IN
            /\ sem_waiters' = [sem_waiters EXCEPT ![s] = Tail(@)]
            /\ rl_pc' = [rl_pc EXCEPT ![c] = "idle", ![w] = "holding"]
            /\ rl_timer' = [rl_timer EXCEPT ![c] = 0, ![w] = 1]
            /\ grant_log' = Granted(grant_log)
            /\ UNCHANGED sem_value
       ELSE /\ sem_value' = Collect([sem_value EXCEPT ![s] = @ + 1], live)
            /\ rl_pc' = [rl_pc EXCEPT ![c] = "idle"]
            /\ rl_timer' = [rl_timer EXCEPT ![c] = 0]
            /\ UNCHANGED <<sem_waiters, grant_log>>
    /\ rl_sem' = [rl_sem EXCEPT ![c] = 0]
    /\ UNCHANGED <<calls_per_second, elapsed, semaphore, rl_crossed, rl_calls>>

\* Line 219 is over: the sleep has ended, the permit is released and
\* acquire() returns.
RLReleaseStep(c) ==
    /\ rl_pc[c] = "holding"
    /\ rl_timer[c] = 0
    /\ aexit(c)

RLRelease(c) == RLReleaseStep(c) /\ UNCHANGED <<reqVars, sigVars, auxVars>>

\* The clock advances by one tick.
Tick ==
    /\ elapsed' = IF window_expired THEN elapsed ELSE elapsed + 1
    /\ rl_timer' = [c \in Callers |-> IF rl_timer[c] > 0 THEN rl_timer[c] - 1 ELSE 0]
    /\ grant_log' = [a \in DOMAIN grant_log |-> IF a = 0 THEN 0 ELSE grant_log[a - 1]]
    /\ UNCHANGED <<calls_per_second, semaphore, sem_value, sem_waiters, rl_pc,
                   rl_sem, rl_crossed, rl_calls>>
    /\ UNCHANGED <<reqVars, sigVars, auxVars>>

NextRL ==
    \/ \E c \in Callers : RLEnter(c)
    \/ \E c \in Callers : RLRelease(c)
    \/ Tick

SpecRL == InitRL /\ [][NextRL]_vars

\* The event loop runs every coroutine that is ready, and time passes.
FairSpecRL ==
    /\ InitRLFair
    /\ [][NextRL]_vars
    /\ WF_vars(Tick)
    /\ \A c \in Callers : WF_vars(RLRelease(c))

(***************************************************************************)
(* Properties of RateLimiter.                                              *)
(***************************************************************************)
RECURSIVE SumUpTo(_, _)
SumUpTo(f, n) == IF n < 0 THEN 0 ELSE f[n] + SumUpTo(f, n - 1)

\* Grants within the one-second window that ends now.
GrantsInWindow == SumUpTo(grant_log, TicksPerSecond(calls_per_second) - 1)

\* C7: no more than calls_per_second permits are granted within any rolling
\* one-second window.
C7_AtMostNGrantsPerWindow == GrantsInWindow <= calls_per_second

\* C8: every call of acquire eventually returns, the calls included that
\* were queued on the semaphore when another caller reset the window.
C8_AcquireReturns ==
    \A c \in Callers : (rl_pc[c] # "idle") ~> (rl_pc[c] = "idle")

C8_Witness ==
    \E c \in Callers : rl_pc[c] = "idle" /\ rl_crossed[c]

(***************************************************************************)
(* WhatsAppClient.validate_webhook_signature (specification SpecSig).      *)
(*                                                                         *)
(* A character is a one-character string; a character outside ASCII is     *)
(* named by its code point. A str is a sequence of characters, bytes a     *)
(* sequence of numbers.                                                    *)
(***************************************************************************)
HexChars == <<"0", "1", "2", "3", "4", "5", "6", "7", "8", "9",
              "a", "b", "c", "d", "e", "f">>

HexCharSet == {HexChars[i] : i \in 1..Len(HexChars)}

NonAsciiChars == {"U+00E9"}

\* Characters a signature header is made of here: the hex digits, an upper
\* case hex digit, "p" (the digit "0" with one bit flipped) and a non-ASCII
\* character.
SigAlphabet == HexCharSet \cup {"A", "p"} \cup NonAsciiChars

Sha256Prefix == <<"s", "h", "a", "2", "5", "6", "=">>

\* str.encode("utf-8") of the secrets used here (all ASCII).
Ord(c) ==
    CASE c = "k" -> 107 [] c = "e" -> 101 [] c = "y" -> 121 [] c = "s" -> 115

encode_utf8(str) == [i \in 1..Len(str) |-> Ord(str[i])]

\* Stand-in for the SHA-256 compression: a byte-wise keyed mixing function
\* into one byte. What validate_webhook_signature relies on is kept: the
\* digest is a function of key and message, rendered by hexdigest() as
\* lower-case hex digits of a fixed length (2 here, 64 in SHA-256).
RECURSIVE Mix(_, _)
Mix(h, bytes) ==
    IF bytes = <<>> THEN h
    ELSE Mix((h * 31 + Head(bytes) + 7) % 256, Tail(bytes))

\* hmac.new(key, msg, hashlib.sha256).hexdigest(), lines 136-140.
hmac_hexdigest(key, msg) ==
    LET h == Mix(Mix(Len(key), key), msg) IN
    <<HexChars[(h \div 16) + 1], HexChars[(h % 16) + 1]>>

\* str.startswith
startswith(str, prefix) ==
    Len(str) >= Len(prefix) /\ SubSeq(str, 1, Len(prefix)) = prefix

\* Lines 132-133: signature[7:] when signature starts with "sha256=".
strip_prefix(signature) ==
    IF startswith(signature, Sha256Prefix)
    THEN SubSeq(signature, Len(Sha256Prefix) + 1, Len(signature))
    ELSE signature

IsAscii(str) == \A i \in 1..Len(str) : str[i] \notin NonAsciiChars

\* hmac.compare_digest(a, b) on two str: TypeError unless both are ASCII,
\* else whether they are equal.
compare_digest(a, b) ==
    IF ~IsAscii(a) \/ ~IsAscii(b) THEN "TypeError"
    ELSE IF a = b THEN "True" ELSE "False"

\* The first position at which a and b differ: one past the shorter of them
\* when one is a prefix of the other.
RECURSIVE FirstDiff(_, _)
FirstDiff(a, b) ==
    IF a = <<>> \/ b = <<>> \/ Head(a) # Head(b) THEN 1
    ELSE 1 + FirstDiff(Tail(a), Tail(b))

\* A variant of compare_digest_steps: the comparison of `expected ==
\* signature`, which stops at the first character that differs.
compare_digest_steps_eq(a, b) ==
    IF Len(a) # Len(b) THEN 0 ELSE IF a = b THEN Len(b) ELSE FirstDiff(a, b)

\* The number of characters hmac.compare_digest(a, b) examines (line 143):
\* none when it raises TypeError, else every character of b, whatever a is.
compare_digest_steps(a, b) ==
    IF ~IsAscii(a) \/ ~IsAscii(b) THEN 0 ELSE Len(b)

\* `not self.app_secret`: None or the empty string.
secret_missing(secret) == secret = None \/ secret = Some(<<>>)

\* Lines 128-143.
validate_webhook_signature(secret, signature, payload) ==
    IF secret_missing(secret) THEN "WebhookError"
    ELSE compare_digest(
            hmac_hexdigest(encode_utf8(Get(secret, <<>>)), payload),
            strip_prefix(signature))

\* The values of self.app_secret: None, "", "key", "s".
Secrets == {None, Some(<<>>), Some(<<"k", "e", "y">>), Some(<<"s">>)}

\* Raw request bodies.
Payloads == {<<>>, <<104>>, <<104, 105>>}

\* What follows the optional prefix in a header: nothing, one character, two
\* characters (the length of a digest), or a digest and one more character.
SigTails ==
    {<<>>}
    \cup {<<a>> : a \in SigAlphabet}
    \cup {<<a, b>> : a \in SigAlphabet, b \in SigAlphabet}
    \cup {<<a, b, "0">> : a \in HexCharSet, b \in HexCharSet}

\* Values of the X-Hub-Signature-256 header: a tail after no prefix, after
\* "sha256=", or after "sha256=sha256=".
SignatureHeaders ==
    {pre \o t : pre \in {<<>>, Sha256Prefix, Sha256Prefix \o Sha256Prefix},
                t \in SigTails}

\* WhatsAppClient.__init__ (line 47) sets self.app_secret.
InitSig ==
    /\ app_secret \in Secrets
    /\ sig_signature = <<>>
    /\ sig_payload = <<>>
    /\ sig_outcome = "none"
    /\ ReqAtRest
    /\ RLAtRest
    /\ AuxAtRest

\* One call validate_webhook_signature(signature, payload). The method
\* reads self.app_secret and changes nothing of the client; a behaviour
\* makes one call.
SigValidate(signature, payload) ==
    /\ sig_outcome = "none"
    /\ sig_signature' = signature
    /\ sig_payload' = payload
    /\ sig_outcome' = validate_webhook_signature(app_secret, signature, payload)
    /\ UNCHANGED app_secret
    /\ UNCHANGED <<reqVars, rlVars, auxVars>>

NextSig ==
    /\ sig_outcome = "none"
    /\ \E signature \in SignatureHeaders, payload \in Payloads :
          SigValidate(signature, payload)

SpecSig == InitSig /\ [][NextSig]_vars

(***************************************************************************)
(* Properties of validate_webhook_signature (checked under SpecSig).       *)
(***************************************************************************)
SigCalled == sig_outcome # "none"

\* The hex HMAC-SHA256 of the payload of the latest call under the secret.
SigExpected == hmac_hexdigest(encode_utf8(Get(app_secret, <<>>)), sig_payload)

\* C9: with an app secret configured the call returns True if and only if
\* the header, after removing one optional leading "sha256=", equals the hex
\* HMAC of the payload; every other header value yields False.
C9_TrueIffDigestMatches ==
    (SigCalled /\ ~secret_missing(app_secret)) =>
        /\ (sig_outcome = "True") <=> (strip_prefix(sig_signature) = SigExpected)
        /\ (strip_prefix(sig_signature) # SigExpected) => (sig_outcome = "False")

\* C10: the call fails with WebhookError exactly when no app secret is
\* configured; with an app secret it returns a boolean for every header and
\* payload and raises nothing.
C10_WebhookErrorOnlyWithoutSecret ==
    SigCalled =>
        /\ (sig_outcome = "WebhookError") <=> secret_missing(app_secret)
        /\ ~secret_missing(app_secret) => sig_outcome \in {"True", "False"}

\* Characters examined by the comparison of the expected digest with the
\* signature t of a header.
SigSteps(t) == compare_digest_steps(SigExpected, t)

\* The signatures that differ from t in their characters alone: as long as
\* t and ASCII like t.
SameShape(t) ==
    LET n == Len(t)
        ascii == IsAscii(t)
    IN {g \in SigTails : Len(g) = n /\ IsAscii(g) = ascii}

truthy(opt) == opt # None /\ opt # Some(<<>>)

\* str.lower() on the characters of the model.
lower(str) == [i \in 1..Len(str) |-> IF str[i] = "V" THEN "v" ELSE str[i]]

\* A variant of verify_webhook_token that compares without regard to case.
verify_webhook_token_caseless(configured, token) ==
    IF ~truthy(configured) THEN FALSE
    ELSE lower(token) = lower(Get(configured, <<>>))

\* Lines 155-159: `if not self.webhook_verify_token: ... return False`, then
\* `return token == self.webhook_verify_token`.
verify_webhook_token(configured, token) ==
    IF ~truthy(configured) THEN FALSE
    ELSE token = Get(configured, <<>>)

TokChars == {"v", "V", "1"}

TokStrings == UNION {[1..n -> TokChars] : n \in 0..MaxTokLen}

\* The client is constructed with or without a verify token (lines 39-62).
InitTok ==
    /\ webhook_verify_token \in {None} \cup {Some(t) : t \in TokStrings}
    /\ tok_token = <<>>
    /\ tok_outcome = "none"
    /\ ReqAtRest /\ RLAtRest /\ SigAtRest
    /\ WhAtRest /\ PhAtRest /\ SendAtRest /\ CfgAtRest /\ EnvAtRest /\ ClsAtRest /\ ExtAtRest

TokVerify(token) ==
    /\ tok_token' = token
    /\ tok_outcome' = IF verify_webhook_token(webhook_verify_token, token)
                      THEN "True" ELSE "False"
    /\ UNCHANGED webhook_verify_token
    /\ UNCHANGED <<reqVars, rlVars, sigVars>>
    /\ UNCHANGED <<whVars, phVars, sendVars, cfgVars, envVars, clsVars, extVars>>

NextTok == \E token \in TokStrings : TokVerify(token)

SpecTok == InitTok /\ [][NextTok]_vars

\* A verify token is configured: the attribute is set and not empty.
TokConfigured == webhook_verify_token # None /\ webhook_verify_token # Some(<<>>)

\* The supplied token is, character by character, the configured one.
TokSame ==
    \E t \in webhook_verify_token :
        /\ Len(t) = Len(tok_token)
        /\ \A i \in 1..Len(t) : t[i] = tok_token[i]

\* C11: verify_webhook_token returns true if and only if a verify token is
\* configured and the supplied token equals it exactly; with no verify token
\* configured it returns false for every token, the empty one included, and
\* it never raises.
C11_VerifyTokenExact ==
    tok_outcome # "none" =>
        /\ tok_outcome \in {"True", "False"}
        /\ tok_outcome = "True" <=> (TokConfigured /\ TokSame)
        /\ ~TokConfigured => tok_outcome = "False"

\* A configured token of full length is supplied and accepted.
C11_Witness ==
    /\ tok_outcome = "True"
    /\ Len(tok_token) = MaxTokLen

(***************************************************************************)
(* WebhookEvent.from_payload (specification SpecWh).                       *)
(***************************************************************************)
\* An item of one of the three lists of a WebhookValue, told apart from
\* every other item of the payload by where it stands.
Item(k, e, c, i) == [kind |-> k, entry |-> e, change |-> c, item |-> i]

ItemList(k, e, c, n) == [i \in 1..n |-> Item(k, e, c, i)]

\* WebhookValue (lines 151-153): each of messages, statuses and errors is
\* None or a list; here by its length.
ValueShapes ==
    { [messages |-> None, statuses |-> None, errors |-> None],
      [messages |-> Some(1), statuses |-> Some(0), errors |-> None],
      [messages |-> Some(2), statuses |-> Some(2), errors |-> Some(1)] }

OptItemList(k, e, c, shape) ==
    IF shape = None THEN None ELSE Some(ItemList(k, e, c, Get(shape, 0)))

\* The value of change c of entry e.
WebhookValue(sh, e, c) ==
    [messages |-> OptItemList("messages", e, c, sh.messages),
     statuses |-> OptItemList("statuses", e, c, sh.statuses),
     errors   |-> OptItemList("errors", e, c, sh.errors)]

\* WebhookEntry.changes (line 167), as the shapes of the values.
ChangeShapes == UNION {[1..n -> ValueShapes] : n \in 0..MaxChanges}

\* WebhookPayload.entry (line 174): entries, each the list of its changes,
\* each change its value.
WebhookPayloads ==
    { [e \in 1..Len(sp) |-> [c \in 1..Len(sp[e]) |-> WebhookValue(sp[e][c], e, c)]] :
        sp \in UNION {[1..k -> ChangeShapes] : k \in 0..MaxEntries} }

\* A variant of collect_change that assigns each list instead of extending.
collect_change_overwrite(acc, value) ==
    [messages |-> IF truthy(value.messages)
                  THEN Get(value.messages, <<>>) ELSE acc.messages,
     statuses |-> IF truthy(value.statuses)
                  THEN Get(value.statuses, <<>>) ELSE acc.statuses,
     errors   |-> IF truthy(value.errors)
                  THEN Get(value.errors, <<>>) ELSE acc.errors]

\* Lines 195-200, the body of the inner loop: `if change.value.messages:
\* messages.extend(change.value.messages)` and the same for statuses and
\* errors (None and the empty list are falsy).
collect_change(acc, value) ==
    [messages |-> IF truthy(value.messages)
                  THEN acc.messages \o Get(value.messages, <<>>) ELSE acc.messages,
     statuses |-> IF truthy(value.statuses)
                  THEN acc.statuses \o Get(value.statuses, <<>>) ELSE acc.statuses,
     errors   |-> IF truthy(value.errors)
                  THEN acc.errors \o Get(value.errors, <<>>) ELSE acc.errors]

\* Line 194: `for change in entry.changes`, from change c on.
RECURSIVE collect_changes(_, _, _)
collect_changes(acc, changes, c) ==
    IF c > Len(changes) THEN acc
    ELSE collect_changes(collect_change(acc, changes[c]), changes, c + 1)

\* Line 193: `for entry in payload.entry`, from entry e on.
RECURSIVE collect_entries(_, _, _)
collect_entries(acc, payload, e) ==
    IF e > Len(payload) THEN acc
    ELSE collect_entries(collect_changes(acc, payload[e], 1), payload, e + 1)

\* Lines 185-206.
from_payload(payload) ==
    LET acc == collect_entries([messages |-> <<>>, statuses |-> <<>>,
                                errors |-> <<>>], payload, 1) IN
    [built |-> TRUE, messages |-> acc.messages, statuses |-> acc.statuses,
     errors |-> acc.errors]

InitWh ==
    /\ wh_payload \in WebhookPayloads
    /\ wh_event = NoEvent
    /\ ReqAtRest /\ RLAtRest /\ SigAtRest
    /\ TokAtRest /\ PhAtRest /\ SendAtRest /\ CfgAtRest /\ EnvAtRest /\ ClsAtRest /\ ExtAtRest

FromPayload ==
    /\ ~wh_event.built
    /\ wh_event' = from_payload(wh_payload)
    /\ UNCHANGED wh_payload
    /\ UNCHANGED <<reqVars, rlVars, sigVars>>
    /\ UNCHANGED <<tokVars, phVars, sendVars, cfgVars, envVars, clsVars, extVars>>

NextWh == FromPayload

SpecWh == InitWh /\ [][NextWh]_vars

WhKinds == {"messages", "statuses", "errors"}

\* The list of kind k of a value (None: absent) and of the event.
ValueList(value, k) ==
    IF k = "messages" THEN value.messages
    ELSE IF k = "statuses" THEN value.statuses ELSE value.errors

EventList(k) ==
    IF k = "messages" THEN wh_event.messages
    ELSE IF k = "statuses" THEN wh_event.statuses ELSE wh_event.errors

\* Item x stands in the payload, in the list of its kind, where its tag says.
InPayload(x) ==
    /\ x.entry \in 1..Len(wh_payload)
    /\ x.change \in 1..Len(wh_payload[x.entry])
    /\ \E l \in ValueList(wh_payload[x.entry][x.change], x.kind) :
          x.item \in 1..Len(l) /\ l[x.item] = x

\* Traversal order: entry, then change, then item.
Before(x, y) ==
    \/ x.entry < y.entry
    \/ x.entry = y.entry /\ x.change < y.change
    \/ x.entry = y.entry /\ x.change = y.change /\ x.item < y.item

\* C12: from_payload never fails, and each of messages, statuses and errors
\* of the event holds exactly the items of that list of every change (an
\* absent list giving none), each once, in entry order, then change order,
\* then item order.
C12_FlattenInOrder ==
    wh_event.built =>
        \A k \in WhKinds :
            LET out == EventList(k) IN
            /\ \A j \in 1..Len(out) : out[j].kind = k /\ InPayload(out[j])
            /\ \A i, j \in 1..Len(out) : i < j => Before(out[i], out[j])
            /\ \A e \in 1..Len(wh_payload) : \A c \in 1..Len(wh_payload[e]) :
                  \A l \in ValueList(wh_payload[e][c], k) :
                      \A i \in 1..Len(l) : \E j \in 1..Len(out) : out[j] = l[i]

\* Two entries with one message each and no status: two messages in entry
\* order, no status.
C12_Witness ==
    /\ wh_event.built
    /\ Len(wh_payload) = 2
    /\ Len(wh_event.messages) = 2
    /\ wh_event.messages[1].entry = 1
    /\ wh_event.messages[2].entry = 2
    /\ wh_event.statuses = <<>>

(***************************************************************************)
(* Phone number validation (specification SpecPhone):                      *)
(* WhatsAppClient._validate_phone_number and Message.validate_phone_number.*)
(***************************************************************************)
MinPhoneDigits == 7
MaxPhoneDigits == 15

DigitChars == {Digits[i] : i \in 1..Len(Digits)}

\* A decimal digit outside ASCII (ARABIC-INDIC DIGIT THREE).
UnicodeDigits == {"U+0663"}

\* str.isdigit on one character: true of every Unicode digit.
str_isdigit(c) == c \in DigitChars \cup UnicodeDigits

\* "".join(filter(str.isdigit, phone)).
filter_isdigit(phone) == SelectSeq(phone, str_isdigit)

ReturnsStr(v) == [exit |-> "return", value |-> v, exc |-> "None"]
RaisesNamed(e) == [exit |-> "raise", value |-> <<>>, exc |-> e]

\* A variant of _validate_phone_number whose upper limit is one too high.
client_validate_phone_number_lax(phone) ==
    LET digits == filter_isdigit(phone) IN
    IF Len(digits) < MinPhoneDigits \/ Len(digits) > MaxPhoneDigits + 1
    THEN RaisesNamed("ValidationError")
    ELSE ReturnsStr(digits)

\* client.py lines 297-317.
client_validate_phone_number(phone) ==
    LET digits == filter_isdigit(phone) IN
    IF Len(digits) < MinPhoneDigits \/ Len(digits) > MaxPhoneDigits
    THEN RaisesNamed("ValidationError")
    ELSE ReturnsStr(digits)

\* models/messages.py lines 33-40: the ValueError of the validator reaches
\* the caller as pydantic's ValidationError.
Message_validate_phone_number(v) ==
    LET digits == filter_isdigit(v) IN
    IF Len(digits) < MinPhoneDigits \/ Len(digits) > MaxPhoneDigits
    THEN RaisesNamed("pydantic.ValidationError")
    ELSE ReturnsStr(digits)

\* n digits, the k-th being the last digit of k.
DigitRun(from, n) == [i \in 1..n |-> Digits[((from + i) % 10) + 1]]

PhonePrefixes == {<<>>, <<"+">>}
PhoneSeparators == {<<>>, <<"-">>, <<" ", "(">>, <<"a">>, <<"U+0663">>}

\* Phone numbers: a prefix, digits, a separator, digits; and the numbers
\* "+1 (234) 567-8900" and "+()-. ".
PhoneNumbers ==
    { pre \o DigitRun(0, d1) \o sep \o DigitRun(d1, d2) :
        pre \in PhonePrefixes, d1 \in 0..MaxRun, sep \in PhoneSeparators,
        d2 \in 0..MaxRun }
    \cup { <<"+", "1", " ", "(", "2", "3", "4", ")", " ", "5", "6", "7", "-",
             "8", "9", "0", "0">>,
           <<"+", "(", ")", "-", ".", " ">> }

InitPhone ==
    /\ ph_phone \in PhoneNumbers
    /\ ph_client = NotCalled
    /\ ph_model = NotCalled
    /\ ReqAtRest /\ RLAtRest /\ SigAtRest
    /\ TokAtRest /\ WhAtRest /\ SendAtRest /\ CfgAtRest /\ EnvAtRest /\ ClsAtRest /\ ExtAtRest

ClientValidatePhone ==
    /\ ph_client.exit = "none"
    /\ ph_client' = client_validate_phone_number(ph_phone)
    /\ UNCHANGED <<ph_phone, ph_model>>
    /\ UNCHANGED <<reqVars, rlVars, sigVars>>
    /\ UNCHANGED <<tokVars, whVars, sendVars, cfgVars, envVars, clsVars, extVars>>

MessageValidatePhone ==
    /\ ph_model.exit = "none"
    /\ ph_model' = Message_validate_phone_number(ph_phone)
    /\ UNCHANGED <<ph_phone, ph_client>>
    /\ UNCHANGED <<reqVars, rlVars, sigVars>>
    /\ UNCHANGED <<tokVars, whVars, sendVars, cfgVars, envVars, clsVars, extVars>>

NextPhone == ClientValidatePhone \/ MessageValidatePhone

SpecPhone == InitPhone /\ [][NextPhone]_vars

\* The positions of the digits of the phone number passed in.
DigitPositions == {i \in 1..Len(ph_phone) : ph_phone[i] \in DigitChars \cup UnicodeDigits}

\* out is the phone number with every character that is no digit removed:
\* its j-th character is the j-th digit of the phone number.
IsDigitsOfPhone(out) ==
    /\ Len(out) = Cardinality(DigitPositions)
    /\ \A i \in DigitPositions :
          out[Cardinality({j \in DigitPositions : j <= i})] = ph_phone[i]

PhoneVerdict(res) ==
    res.exit # "none" =>
        IF /\ Cardinality(DigitPositions) >= 7
           /\ Cardinality(DigitPositions) <= 15
        THEN res.exit = "return" /\ IsDigitsOfPhone(res.value)
        ELSE res.exit = "raise" /\ res.value = <<>>
             /\ res.exc \in {"ValidationError", "pydantic.ValidationError"}

\* C13: phone number validation returns the input with every non-digit
\* character removed when it has between 7 and 15 digits, and rejects it
\* with a validation error, returning nothing, when it has fewer than 7 or
\* more than 15.
C13_PhoneDigits == PhoneVerdict(ph_client) /\ PhoneVerdict(ph_model)

\* "+1 (234) 567-8900" has given "12345678900".
C13_Witness ==
    /\ Len(ph_phone) = 17
    /\ ph_phone[3] = " "
    /\ ph_client.exit = "return"
    /\ ph_client.value = <<"1", "2", "3", "4", "5", "6", "7", "8", "9", "0", "0">>
    /\ ph_model.exit = "return"

(***************************************************************************)
(* WhatsAppClient.send_text and send_image, down to HTTPClient.request     *)
(* (specification SpecSend).                                               *)
(***************************************************************************)
MaxBodyLength == 4096
MaxCaptionLength == 1024

Repeat(c, n) == [i \in 1..n |-> c]

WhitespaceChars == {" ", "\t", "\n"}

\* str.strip(): the string without leading and trailing whitespace.
str_strip(str) ==
    LET keep == {i \in 1..Len(str) : str[i] \notin WhitespaceChars} IN
    IF keep = {} THEN <<>>
    ELSE SubSeq(str, CHOOSE i \in keep : \A j \in keep : i <= j,
                     CHOOSE i \in keep : \A j \in keep : i >= j)

\* A variant of send_text without the check of the length of the body.
send_text_unbounded(to, body) ==
    IF client_validate_phone_number(to).exit = "raise" THEN "ValidationError"
    ELSE IF body = <<>> \/ str_strip(body) = <<>> THEN "ValidationError"
    ELSE "post"

\* Lines 184-208 of send_text: the exception raised, or "post" when it
\* reaches `await self.http.post(...)`.
send_text(to, body) ==
    IF client_validate_phone_number(to).exit = "raise" THEN "ValidationError"
    ELSE IF body = <<>> \/ str_strip(body) = <<>> THEN "ValidationError"
    ELSE IF Len(body) > MaxBodyLength THEN "ValidationError"
    ELSE "post"

\* Lines 234-266 of send_image; image is "str" (a URL or a media id) or
\* "bytes".
send_image(to, image, caption) ==
    IF client_validate_phone_number(to).exit = "raise" THEN "ValidationError"
    ELSE IF truthy(caption) /\ Len(Get(caption, <<>>)) > MaxCaptionLength
    THEN "ValidationError"
    ELSE IF image # "str" THEN "NotImplementedError"
    ELSE "post"

\* Arguments: a number of 3 digits, the empty number, one of 8 digits and one
\* of 16; bodies and captions at and around the limits.
SendPhones ==
    {<<>>, <<"1", "2", "3">>, <<"+", "1", "2", "3", "4", "5", "6", "7", "8">>,
     DigitRun(0, MaxPhoneDigits + 1)}

SendBodies ==
    {<<>>, <<" ">>, <<" ", "\n", "\t">>, <<"h", "i">>,
     Repeat("a", MaxBodyLength), Repeat("a", MaxBodyLength + 1)}

SendCaptions ==
    {None, Some(<<>>), Some(Repeat("c", MaxCaptionLength)),
     Some(Repeat("c", MaxCaptionLength + 1))}

SendImages == {"str", "bytes"}

\* The client is constructed (its HTTPClient with it); nothing is sent yet.
InitSend ==
    /\ max_retries \in 0..MaxSendRetries
    /\ pc = "start"
    /\ attempt = 0
    /\ last_exception = "None"
    /\ log = <<>>
    /\ resp = NoResponse
    /\ sleeps = <<>>
    /\ acquires = 0
    /\ outcome = "pending"
    /\ error = NoError
    /\ returned = NoBody
    /\ send_call = NoCall
    /\ send_outcome = "none"
    /\ RLAtRest /\ SigAtRest
    /\ TokAtRest /\ WhAtRest /\ PhAtRest /\ CfgAtRest /\ EnvAtRest /\ ClsAtRest /\ ExtAtRest

\* send_text up to the post, or to the exception that ends it before.
SendText(to, body) ==
    /\ send_outcome = "none"
    /\ send_call' = [op |-> "send_text", to |-> to, body |-> body,
                     caption |-> None, image |-> "str"]
    /\ send_outcome' = IF send_text(to, body) = "post" THEN "posted"
                       ELSE send_text(to, body)
    /\ UNCHANGED <<reqVars, rlVars, sigVars>>
    /\ UNCHANGED <<tokVars, whVars, phVars, cfgVars, envVars, clsVars, extVars>>

\* send_image up to the post, or to the exception that ends it before.
SendImage(to, image, caption) ==
    /\ send_outcome = "none"
    /\ send_call' = [op |-> "send_image", to |-> to, body |-> <<>>,
                     caption |-> caption, image |-> image]
    /\ send_outcome' = IF send_image(to, image, caption) = "post" THEN "posted"
                       ELSE send_image(to, image, caption)
    /\ UNCHANGED <<reqVars, rlVars, sigVars>>
    /\ UNCHANGED <<tokVars, whVars, phVars, cfgVars, envVars, clsVars, extVars>>

\* `await self.http.post(endpoint, json=payload)`: HTTPClient.request runs.
HttpPost ==
    /\ send_outcome = "posted"
    /\ NextReq

NextSend ==
    \/ /\ send_outcome = "none"
       /\ \E to \in SendPhones, body \in SendBodies : SendText(to, body)
    \/ /\ send_outcome = "none"
       /\ \E to \in SendPhones, image \in SendImages, caption \in SendCaptions :
             SendImage(to, image, caption)
    \/ HttpPost

SpecSend == InitSend /\ [][NextSend]_vars

\* The arguments of the call, judged as the claim words them.
InvalidPhoneNumber(to) ==
    LET n == Cardinality({i \in 1..Len(to) : to[i] \in DigitChars \cup UnicodeDigits}) IN
    n < 7 \/ n > 15

BlankBody(body) == \A i \in 1..Len(body) : body[i] \in {" ", "\t", "\n"}

InvalidCall ==
    \/ /\ send_call.op = "send_text"
       /\ \/ InvalidPhoneNumber(send_call.to)
          \/ BlankBody(send_call.body)
          \/ Len(send_call.body) > 4096
    \/ /\ send_call.op = "send_image"
       /\ \/ InvalidPhoneNumber(send_call.to)
          \/ \E cap \in send_call.caption : Len(cap) > 1024

\* C14: a call of send_text or send_image with an invalid phone number, an
\* empty or whitespace-only body, a body of more than 4096 characters or a
\* caption of more than 1024 characters raises ValidationError with no
\* rate-limit permit acquired, no HTTP attempt made and nothing retried.
C14_ValidationBeforeIO ==
    InvalidCall =>
        /\ send_outcome = "ValidationError"
        /\ acquires = 0
        /\ log = <<>>
        /\ sleeps = <<>>
        /\ pc = "start"

\* A body of 4097 characters for a valid phone number has been rejected.
C14_Witness ==
    /\ send_call.op = "send_text"
    /\ ~InvalidPhoneNumber(send_call.to)
    /\ Len(send_call.body) = 4097
    /\ send_outcome = "ValidationError"
    /\ acquires = 0

(***************************************************************************)
(* Config (config.py; specification SpecCfg).                              *)
(***************************************************************************)
DefaultTimeout == 30
DefaultMaxRetries == 3
DefaultRateLimit == 80
MaxTimeout == 300
MaxConfigRetries == 10
MaxRateLimit == 1000

\* A Python float: a finite number (here in milliseconds), an infinity or
\* NaN. pydantic accepts all of them for a float field.
Finite(ms) == [kind |-> "finite", ms |-> ms]
NaN == [kind |-> "nan", ms |-> 0]
Inf == [kind |-> "inf", ms |-> 0]

Seconds(n) == Finite(n * 1000)

\* v <= n and v > n for a float v and an integer n of seconds: every
\* comparison with NaN is false.
float_le(v, n) ==
    IF v.kind = "nan" THEN FALSE
    ELSE IF v.kind = "inf" THEN FALSE
    ELSE v.ms <= n * 1000

float_gt(v, n) ==
    IF v.kind = "nan" THEN FALSE
    ELSE IF v.kind = "inf" THEN TRUE
    ELSE v.ms > n * 1000

\* Lines 21-29, 31-39, 41-49: TRUE when the validator returns v, FALSE when
\* it raises ValueError.
validate_timeout(v) ==
    IF float_le(v, 0) THEN FALSE
    ELSE IF float_gt(v, MaxTimeout) THEN FALSE
    ELSE TRUE

validate_max_retries(v) ==
    IF v < 0 THEN FALSE
    ELSE IF v > MaxConfigRetries THEN FALSE
    ELSE TRUE

validate_rate_limit(v) ==
    IF v <= 0 THEN FALSE
    ELSE IF v > MaxRateLimit THEN FALSE
    ELSE TRUE

\* Config(timeout=..., max_retries=..., rate_limit=...): an argument left
\* out (None) takes the default of lines 14-19, which is not validated; the
\* validator of every argument given runs.
Config_init(t, r, l) ==
    [ok |-> /\ \A v \in t : validate_timeout(v)
            /\ \A v \in r : validate_max_retries(v)
            /\ \A v \in l : validate_rate_limit(v),
     value |-> [timeout |-> Get(t, Seconds(DefaultTimeout)),
                max_retries |-> Get(r, DefaultMaxRetries),
                rate_limit |-> Get(l, DefaultRateLimit)]]

\* Values passed for the three fields.
TimeoutValues == {Finite(0), Finite(1), Seconds(MaxTimeout),
                  Finite(MaxTimeout * 1000 + 1), NaN, Inf}
MaxRetriesValues == {-1, 0, MaxConfigRetries, MaxConfigRetries + 1}
RateLimitValues == {0, 1, MaxRateLimit, MaxRateLimit + 1}

Optional(S) == {None} \cup {Some(v) : v \in S}

InitCfg ==
    /\ cfg = None
    /\ cfg_op = NoCfgOp
    /\ cfg_outcome = "none"
    /\ ReqAtRest /\ RLAtRest /\ SigAtRest
    /\ TokAtRest /\ WhAtRest /\ PhAtRest /\ SendAtRest /\ EnvAtRest /\ ClsAtRest /\ ExtAtRest

CfgOthersUnchanged ==
    /\ UNCHANGED <<reqVars, rlVars, sigVars>>
    /\ UNCHANGED <<tokVars, whVars, phVars, sendVars, envVars, clsVars, extVars>>

\* config = Config(...): a failed construction leaves the object held.
CfgConstruct(t, r, l) ==
    /\ cfg_op' = [op |-> "construct", field |-> "all", timeout |-> t,
                  max_retries |-> r, rate_limit |-> l]
    /\ IF Config_init(t, r, l).ok
       THEN cfg' = Some(Config_init(t, r, l).value) /\ cfg_outcome' = "ok"
       ELSE cfg' = cfg /\ cfg_outcome' = "ValidationError"
    /\ CfgOthersUnchanged

\* config.timeout = v under validate_assignment (lines 63-67): the validator
\* runs first, and the field is set only when it returns.
CfgAssignTimeout(v) ==
    /\ cfg # None
    /\ cfg_op' = [op |-> "assign", field |-> "timeout", timeout |-> Some(v),
                  max_retries |-> None, rate_limit |-> None]
    /\ IF validate_timeout(v)
       THEN cfg' = {[c EXCEPT !.timeout = v] : c \in cfg} /\ cfg_outcome' = "ok"
       ELSE cfg' = cfg /\ cfg_outcome' = "ValidationError"
    /\ CfgOthersUnchanged

CfgAssignMaxRetries(v) ==
    /\ cfg # None
    /\ cfg_op' = [op |-> "assign", field |-> "max_retries", timeout |-> None,
                  max_retries |-> Some(v), rate_limit |-> None]
    /\ IF validate_max_retries(v)
       THEN cfg' = {[c EXCEPT !.max_retries = v] : c \in cfg} /\ cfg_outcome' = "ok"
       ELSE cfg' = cfg /\ cfg_outcome' = "ValidationError"
    /\ CfgOthersUnchanged

CfgAssignRateLimit(v) ==
    /\ cfg # None
    /\ cfg_op' = [op |-> "assign", field |-> "rate_limit", timeout |-> None,
                  max_retries |-> None, rate_limit |-> Some(v)]
    /\ IF validate_rate_limit(v)
       THEN cfg' = {[c EXCEPT !.rate_limit = v] : c \in cfg} /\ cfg_outcome' = "ok"
       ELSE cfg' = cfg /\ cfg_outcome' = "ValidationError"
    /\ CfgOthersUnchanged

NextCfg ==
    \/ \E t \in Optional(TimeoutValues), r \in Optional(MaxRetriesValues),
          l \in Optional(RateLimitValues) : CfgConstruct(t, r, l)
    \/ \E v \in TimeoutValues : CfgAssignTimeout(v)
    \/ \E v \in MaxRetriesValues : CfgAssignMaxRetries(v)
    \/ \E v \in RateLimitValues : CfgAssignRateLimit(v)

SpecCfg == InitCfg /\ [][NextCfg]_vars

\* 0 < timeout <= 300 seconds, 0 <= max_retries <= 10, 1 <= rate_limit <= 1000.
TimeoutInRange(v) == v.kind = "finite" /\ 0 < v.ms /\ v.ms <= 300000
MaxRetriesInRange(v) == 0 <= v /\ v <= 10
RateLimitInRange(v) == 1 <= v /\ v <= 1000

\* The latest operation passed a value outside the ranges.
OpOutOfRange ==
    \/ \E v \in cfg_op.timeout : ~TimeoutInRange(v)
    \/ \E v \in cfg_op.max_retries : ~MaxRetriesInRange(v)
    \/ \E v \in cfg_op.rate_limit : ~RateLimitInRange(v)

\* C15: a Config object never holds out-of-range values (0 < timeout <= 300,
\* 0 <= max_retries <= 10, 1 <= rate_limit <= 1000, after any constructions
\* and assignments), and a construction or assignment with a value outside
\* these ranges is rejected.
C15_ConfigInRange ==
    /\ \A c \in cfg :
          /\ TimeoutInRange(c.timeout)
          /\ MaxRetriesInRange(c.max_retries)
          /\ RateLimitInRange(c.rate_limit)
    /\ cfg_outcome # "none" => (cfg_outcome = "ValidationError" <=> OpOutOfRange)

(***************************************************************************)
(* WhatsAppClient.from_env (specification SpecEnv).                        *)
(***************************************************************************)
\* float(s) and int(s) for the strings of the model, which are decimal
\* numerals; None stands for the ValueError of any other string.
parse_float(str) == IF int_ok(str) THEN Some(Seconds(DecimalValue(str))) ELSE None
parse_int(str) == IF int_ok(str) THEN Some(DecimalValue(str)) ELSE None

\* os.getenv(name, default) followed by the conversion: the default when
\* the variable is unset.
getenv_float(opt, default) ==
    IF opt = None THEN Some(default) ELSE parse_float(Get(opt, <<>>))
getenv_int(opt, default) ==
    IF opt = None THEN Some(default) ELSE parse_int(Get(opt, <<>>))

\* Config.from_env (config.py lines 51-61).
Config_from_env(env) ==
    LET t == getenv_float(env.WHATSAPP_TIMEOUT, Seconds(DefaultTimeout))
        r == getenv_int(env.WHATSAPP_MAX_RETRIES, DefaultMaxRetries)
        l == getenv_int(env.WHATSAPP_RATE_LIMIT, DefaultRateLimit)
    IN  IF t = None \/ r = None \/ l = None
        THEN [ok |-> FALSE, exc |-> "ValueError", value |-> None]
        ELSE IF ~Config_init(t, r, l).ok
        THEN [ok |-> FALSE, exc |-> "pydantic.ValidationError", value |-> None]
        ELSE [ok |-> TRUE, exc |-> "None", value |-> Some(Config_init(t, r, l).value)]

EnvRaises(e, name) == [exit |-> "raise", exc |-> e, message |-> name, client |-> NoClient]

\* client.py lines 76-103.
from_env(env) ==
    IF ~truthy(env.WHATSAPP_PHONE_NUMBER_ID)
    THEN EnvRaises("ValueError", "WHATSAPP_PHONE_NUMBER_ID")
    ELSE IF ~truthy(env.WHATSAPP_ACCESS_TOKEN)
    THEN EnvRaises("ValueError", "WHATSAPP_ACCESS_TOKEN")
    ELSE IF ~truthy(env.WHATSAPP_APP_SECRET)
    THEN EnvRaises("ValueError", "WHATSAPP_APP_SECRET")
    ELSE IF ~truthy(env.WHATSAPP_WEBHOOK_VERIFY_TOKEN)
    THEN EnvRaises("ValueError", "WHATSAPP_WEBHOOK_VERIFY_TOKEN")
    ELSE IF ~Config_from_env(env).ok
    THEN EnvRaises(Config_from_env(env).exc, "")
    ELSE [exit |-> "return", exc |-> "None", message |-> "",
          client |-> [phone_number_id |-> env.WHATSAPP_PHONE_NUMBER_ID,
                      access_token |-> env.WHATSAPP_ACCESS_TOKEN,
                      app_secret |-> env.WHATSAPP_APP_SECRET,
                      webhook_verify_token |-> env.WHATSAPP_WEBHOOK_VERIFY_TOKEN,
                      config |-> Config_from_env(env).value]]

\* A credential variable is unset, empty or set.
CredentialValues == {None, Some(<<>>), Some(<<"x">>)}

\* os.environ: the four credentials, and the optional numbers (unset or a
\* value within range).
Environments ==
    [WHATSAPP_PHONE_NUMBER_ID : CredentialValues,
     WHATSAPP_ACCESS_TOKEN : CredentialValues,
     WHATSAPP_APP_SECRET : CredentialValues,
     WHATSAPP_WEBHOOK_VERIFY_TOKEN : CredentialValues,
     WHATSAPP_TIMEOUT : {None, Some(<<"4", "5">>)},
     WHATSAPP_MAX_RETRIES : {None, Some(<<"1", "0">>)},
     WHATSAPP_RATE_LIMIT : {None, Some(<<"2", "0", "0">>)}]

InitEnv ==
    /\ environ \in Environments
    /\ env_outcome = NotRun
    /\ ReqAtRest /\ RLAtRest /\ SigAtRest
    /\ TokAtRest /\ WhAtRest /\ PhAtRest /\ SendAtRest /\ CfgAtRest /\ ClsAtRest /\ ExtAtRest

FromEnv ==
    /\ env_outcome.exit = "none"
    /\ env_outcome' = from_env(environ)
    /\ UNCHANGED environ
    /\ UNCHANGED <<reqVars, rlVars, sigVars>>
    /\ UNCHANGED <<tokVars, whVars, phVars, sendVars, cfgVars, clsVars, extVars>>

NextEnv == FromEnv

SpecEnv == InitEnv /\ [][NextEnv]_vars

\* A variable is unset (an empty value counting as unset).
Unset(v) == v = None \/ v = Some(<<>>)

\* The configuration the environment asks for.
EnvConfig ==
    [timeout |-> IF environ.WHATSAPP_TIMEOUT = None THEN Finite(30000)
                 ELSE Finite(45000),
     max_retries |-> IF environ.WHATSAPP_MAX_RETRIES = None THEN 3 ELSE 10,
     rate_limit |-> IF environ.WHATSAPP_RATE_LIMIT = None THEN 80 ELSE 200]

\* C16: from_env fails, with a ValueError naming the missing variable
\* (WHATSAPP_PHONE_NUMBER_ID first), exactly when WHATSAPP_PHONE_NUMBER_ID or
\* WHATSAPP_ACCESS_TOKEN is unset; app secret and verify token are optional,
\* so with the two set it returns a client carrying the values of the
\* environment.
C16_FromEnvRequiresIdAndToken ==
    env_outcome.exit # "none" =>
        IF Unset(environ.WHATSAPP_PHONE_NUMBER_ID)
        THEN /\ env_outcome.exit = "raise"
             /\ env_outcome.exc = "ValueError"
             /\ env_outcome.message = "WHATSAPP_PHONE_NUMBER_ID"
        ELSE IF Unset(environ.WHATSAPP_ACCESS_TOKEN)
        THEN /\ env_outcome.exit = "raise"
             /\ env_outcome.exc = "ValueError"
             /\ env_outcome.message = "WHATSAPP_ACCESS_TOKEN"
        ELSE /\ env_outcome.exit = "return"
             /\ env_outcome.client.phone_number_id = environ.WHATSAPP_PHONE_NUMBER_ID
             /\ env_outcome.client.access_token = environ.WHATSAPP_ACCESS_TOKEN
             /\ env_outcome.client.config = Some(EnvConfig)

(***************************************************************************)
(* Error classification (specification SpecCls): APIError.from_response,   *)
(* called on a parsed body, and lines 106-116 of HTTPClient.request, which *)
(* call it on the body of a response that raise_for_status refused.        *)
(***************************************************************************)
\* The statuses for which line 101 raises HTTPStatusError and line 108
\* takes the first branch: 429, 401 and 403 never reach line 101.
ClassifiedStatuses == {st \in Statuses : st >= 400 /\ st # 429 /\ st \notin {401, 403}}

JsonBodies == {b \in Bodies : b.json}

ClassifiedResponse(st, b) ==
    [kind |-> "response", exc |-> "None", status |-> st, retry_after |-> None,
     body |-> b]

\* What became of the call of from_response inside lines 109-111.
from_response_in_request(r) ==
    IF response_json(r).exit = "raise" THEN "not called"
    ELSE IF APIError_from_response(r.body).kind = "APIError" THEN "returned"
    ELSE "raised"

InitCls ==
    /\ cls_call \in { [op |-> "request", status |-> st, body |-> b] :
                         st \in ClassifiedStatuses, b \in Bodies }
                     \cup { [op |-> "from_response", status |-> 0, body |-> b] :
                             b \in JsonBodies }
    /\ cls_result = NotClassified
    /\ ReqAtRest /\ RLAtRest /\ SigAtRest
    /\ TokAtRest /\ WhAtRest /\ PhAtRest /\ SendAtRest /\ CfgAtRest /\ EnvAtRest /\ ExtAtRest

\* Lines 106-116 for a response of status >= 400: the exception raised.
ClassifyInRequest ==
    /\ cls_call.op = "request"
    /\ cls_result.exit = "none"
    /\ LET r == ClassifiedResponse(cls_call.status, cls_call.body) IN
       cls_result' = [exit |-> "raise",
                      exc |-> on_HTTPStatusError(r, 0, 1, "None").exc,
                      from_response |-> from_response_in_request(r)]
    /\ UNCHANGED cls_call
    /\ UNCHANGED <<reqVars, rlVars, sigVars>>
    /\ UNCHANGED <<tokVars, whVars, phVars, sendVars, cfgVars, envVars, extVars>>

\* APIError.from_response(body), exceptions.py lines 39-48: the APIError
\* returned, or the exception raised.
FromResponse ==
    /\ cls_call.op = "from_response"
    /\ cls_result.exit = "none"
    /\ LET e == APIError_from_response(cls_call.body) IN
       cls_result' = [exit |-> IF e.kind = "APIError" THEN "return" ELSE "raise",
                      exc |-> e,
                      from_response |-> IF e.kind = "APIError" THEN "returned"
                                        ELSE "raised"]
    /\ UNCHANGED cls_call
    /\ UNCHANGED <<reqVars, rlVars, sigVars>>
    /\ UNCHANGED <<tokVars, whVars, phVars, sendVars, cfgVars, envVars, extVars>>

NextCls == ClassifyInRequest \/ FromResponse

SpecCls == InitCls /\ [][NextCls]_vars

\* C17: error classification does not throw: for every status >= 400 and
\* every body (missing, not JSON, JSON without an "error" key, or with an
\* "error" value that is not a mapping) the request raises an APIError with
\* the raw HTTP status code and a non-empty message, and
\* APIError.from_response itself raises nothing.
C17_ClassificationNeverThrows ==
    cls_result.exit # "none" =>
        /\ cls_call.op = "request" =>
              /\ cls_result.exc.kind = "APIError"
              /\ cls_result.exc.status_code = Some(cls_call.status)
              /\ cls_result.exc.message # ""
        /\ cls_call.op = "from_response" =>
              /\ cls_result.exit = "return"
              /\ cls_result.exc.kind = "APIError"
        /\ cls_result.from_response # "raised"

(***************************************************************************)
(* Further properties of HTTPClient.request (specification SpecReq).       *)
(***************************************************************************)
\* The latest attempt met a 2xx response whose body is JSON.
LatestIsSuccess ==
    /\ resp.kind = "response"
    /\ Is2xx(resp.status)
    /\ resp.body.json

\* C18: on a 2xx response request returns the parsed JSON body of that
\* response, the one of the latest attempt, and then makes no further
\* attempt and no backoff sleep; it returns on nothing but a 2xx response.
C18_SuccessReturnsItsBody ==
    /\ LatestIsSuccess =>
          /\ outcome = "returned"
          /\ returned = resp.body
          /\ pc = "done"
          /\ log[Len(log)] = [kind |-> "response", status |-> resp.status]
          /\ Len(sleeps) < Len(log)
    /\ outcome = "returned" => LatestIsSuccess

\* After a transport failure and its sleep, the second attempt succeeds and
\* its body is returned.
C18_Witness ==
    /\ outcome = "returned"
    /\ Len(log) = 2
    /\ log[1].kind = "neterr"
    /\ sleeps = <<1>>
    /\ returned.tag = "b"

\* No attempt is to follow: the request has ended, or the loop is exhausted.
NoAttemptToFollow == pc = "done" \/ (pc = "loop" /\ attempt >= max_retries)

\* C19: between attempt k and attempt k+1 (k from 0) there is exactly one
\* sleep, of 2^k seconds; every retry is preceded by it, and there is no
\* sleep after the final attempt, a success or a failure that is not
\* retried.
C19_BackoffOrdering ==
    /\ \A k \in 1..Len(sleeps) : sleeps[k] = 2 ^ (k - 1)
    /\ log = <<>> => sleeps = <<>>
    /\ pc = "sleeping" => Len(sleeps) = Len(log)
    /\ (pc = "loop" /\ attempt < max_retries /\ log # <<>>) =>
          Len(sleeps) = Len(log)
    /\ (NoAttemptToFollow /\ log # <<>>) => Len(sleeps) = Len(log) - 1

\* C20: a request acquires exactly one permit, before its first HTTP
\* attempt; its retries acquire none.
C20_OneAcquirePerRequest ==
    /\ pc = "start" => (acquires = 0 /\ log = <<>>)
    /\ pc # "start" => acquires = 1
    /\ log # <<>> => acquires = 1

\* A request that slept and made a second attempt has ended with one
\* acquire.
C20_Witness ==
    /\ pc = "done"
    /\ Len(log) >= 2
    /\ sleeps # <<>>
    /\ acquires = 1

\* The event loop runs the request: the HTTP call returns or fails (the
\* client has a timeout), and a sleep ends.
\* FairSpecReq draws the responses from one representative of each class
\* the loop tells apart: every status, with and without a Retry-After
\* header, and a body that is not JSON, a JSON object, or a vendor envelope.
FairResponses ==
    {r \in Responses :
        /\ r.retry_after \in {None, Some(<<"W", "e", "d">>)}
        /\ r.body.tag \in {"none", "text", "a", "envelope"}
        /\ r.body.tag = "envelope" =>
              (r.body.message # None /\ r.body.code # None /\ r.body.error_data # None)}

NextReqFair ==
    \/ ReqAcquire
    \/ \E r \in FairResponses : ReqAttempt(r)
    \/ ReqWake
    \/ ReqExhausted

FairSpecReq == InitReq /\ [][NextReqFair]_vars /\ WF_vars(NextReqFair)

ErrorKinds == {"RateLimitError", "AuthenticationError", "APIError", "NetworkError"}

\* C25: every failure of request is one of RateLimitError,
\* AuthenticationError, APIError and NetworkError, whatever the status, the
\* headers and the body: no httpx error, JSON decode error or ValueError
\* reaches the caller.
C25_OnlyTheFourErrorKinds ==
    /\ outcome = "raised" => error.kind \in ErrorKinds
    /\ pc = "done" => outcome \in {"returned", "raised"}
    /\ outcome = "returned" => error = NoError

\* A 2xx response whose body is not JSON has ended in NetworkError.
C25_Witness ==
    /\ outcome = "raised"
    /\ resp.kind = "response"
    /\ Is2xx(resp.status)
    /\ ~resp.body.json
    /\ error.kind = "NetworkError"

\* max_retries - 1, and 0 when there is no attempt at all.
MaxSleeps == IF max_retries = 0 THEN 0 ELSE max_retries - 1

\* C26: request always terminates, after at most max_retries HTTP attempts
\* (no attempt is numbered max_retries or more) and at most max_retries - 1
\* backoff sleeps.
C26_RequestTerminates ==
    /\ [](Len(log) <= max_retries /\ Len(sleeps) <= MaxSleeps)
    /\ <>(pc = "done")

\* Every attempt failed in the transport: max_retries attempts and
\* max_retries - 1 sleeps.
C26_Witness ==
    /\ pc = "done"
    /\ max_retries >= 2
    /\ Len(log) = max_retries
    /\ Len(sleeps) = max_retries - 1

\* C27: with max_retries = 0, which validate_max_retries accepts, request
\* makes no HTTP call: it acquires a permit, falls through the empty loop
\* and raises the generic NetworkError; it never returns.
C27_ZeroRetriesNeverSucceeds ==
    max_retries = 0 =>
        /\ validate_max_retries(max_retries)
        /\ log = <<>>
        /\ sleeps = <<>>
        /\ outcome # "returned"
        /\ pc = "done" =>
              /\ acquires = 1
              /\ outcome = "raised"
              /\ error.kind = "NetworkError"
              /\ error.message = "Request failed for unknown reason"
              /\ error.cause = "None"

C27_Witness ==
    /\ max_retries = 0
    /\ pc = "done"
    /\ outcome = "raised"

(***************************************************************************)
(* Further properties of RateLimiter.                                      *)
(***************************************************************************)
\* The callers inside `async with self.semaphore` (lines 217-219).
PermitHolders == {c \in Callers : rl_pc[c] = "holding"}

\* Those of them whose sleep of line 219 is not over yet.
Sleepers == {c \in PermitHolders : rl_timer[c] > 0}

\* C28: at every instant at most calls_per_second callers hold a permit,
\* also when a window reset has replaced the semaphore while earlier callers
\* hold or wait for permits. Only the callers still inside their sleep are
\* counted.
C28_AtMostNHolders == Cardinality(Sleepers) <= calls_per_second

\* The holders of a permit of semaphore s.
HoldersOf(s) == {c \in PermitHolders : rl_sem[c] = s}

\* C29: a permit is held only inside acquire: the permits missing from the
\* current semaphore are those of the callers that hold one of its
\* permits, never more than calls_per_second are available, and when every
\* acquire has returned all calls_per_second permits are available and
\* nobody queues.
C29_PermitsComeBack ==
    /\ sem_value[semaphore] + Cardinality(HoldersOf(semaphore)) = calls_per_second
    /\ (\A c \in Callers : rl_pc[c] = "idle") =>
          /\ sem_value[semaphore] = calls_per_second
          /\ sem_waiters[semaphore] = <<>>

\* Every acquire has returned, after a reset that happened while a permit
\* of the older semaphore was held.
C29_Witness ==
    /\ \A c \in Callers : rl_pc[c] = "idle"
    /\ semaphore # 0
    /\ rl_calls >= 2

\* C30: the window start and the semaphore change together, in the locked
\* block of one call of acquire and only there; a call that arrives less
\* than one second after the window start changes neither; after a reset
\* the window is not expired, so that of the callers crossing one boundary
\* one alone resets; the window start never moves back.
C30_WindowChangesUnderLock ==
    [][
        /\ semaphore' # semaphore =>
              /\ rl_calls' = rl_calls + 1
              /\ elapsed >= TicksPerSecond(calls_per_second)
              /\ elapsed' = 0
              /\ elapsed' < TicksPerSecond(calls_per_second)
              /\ sem_value'[semaphore'] + Cardinality({c \in Callers :
                     rl_pc'[c] = "holding" /\ rl_sem'[c] = semaphore'})
                   = calls_per_second
        /\ elapsed' < elapsed => semaphore' # semaphore
        /\ (rl_calls' = rl_calls + 1 /\ elapsed < TicksPerSecond(calls_per_second)) =>
              (semaphore' = semaphore /\ elapsed' = elapsed)
        /\ (rl_calls' = rl_calls + 1 /\ elapsed >= TicksPerSecond(calls_per_second)) =>
              semaphore' # semaphore
    ]_vars

\* A caller has reset the window while another held a permit.
C30_Witness ==
    /\ semaphore # 0
    /\ elapsed = 0
    /\ \E c \in Callers : rl_pc[c] = "holding" /\ rl_sem[c] # semaphore

(***************************************************************************)
(* Concurrent calls of HTTPClient.request (specification SpecConc).        *)
(*                                                                         *)
(* Two coroutines call request() on one HTTPClient. self.max_retries is    *)
(* shared and never assigned; `attempt` and `last_exception` are locals of *)
(* each call (lines 73-74). A coroutine runs from one await to the next    *)
(* without interruption: the steps of the two calls interleave at the      *)
(* awaits (the acquire, the HTTP call, the sleep).                         *)
(***************************************************************************)
Resp(st, b) ==
    [kind |-> "response", exc |-> "None", status |-> st, retry_after |-> None,
     body |-> b]

NetErr(x) ==
    [kind |-> "neterr", exc |-> x, status |-> 0, retry_after |-> None,
     body |-> NoBody]

\* What the attempts of the concurrent requests meet: a success, a 2xx body
\* that is not JSON, a redirect, a client error, a rate limit, and the
\* transport failures.
ConcResponses ==
    {Resp(200, Body(TRUE, TRUE, FALSE, FALSE, None, None, None, None, "a")),
     Resp(200, NotJsonBody),
     Resp(304, NotJsonBody),
     Resp(400, Body(TRUE, TRUE, TRUE, TRUE, Some("Invalid parameter"),
                    Some("100"), None, None, "envelope")),
     Resp(429, NotJsonBody)}
    \cup {NetErr(x) : x \in RequestErrors}

\* A variant of store_last_exception: last_exception kept on the HTTPClient,
\* one for all requests.
store_last_exception_shared(q, v) == [p \in Requests |-> v]

\* Lines 73, 120 and 128: an assignment to the local last_exception of
\* request q.
store_last_exception(q, v) == [cr_last EXCEPT ![q] = v]

InitConc ==
    /\ max_retries \in 0..MaxConcRetries
    /\ pc = "start"
    /\ attempt = 0
    /\ last_exception = "None"
    /\ log = <<>>
    /\ resp = NoResponse
    /\ sleeps = <<>>
    /\ acquires = 0
    /\ outcome = "pending"
    /\ error = NoError
    /\ returned = NoBody
    /\ RLAtRest /\ SigAtRest
    /\ TokAtRest /\ WhAtRest /\ PhAtRest /\ SendAtRest /\ CfgAtRest /\ EnvAtRest
    /\ ClsAtRest /\ CrAtRest /\ CnAtRest /\ ClAtRest

ConcOthersUnchanged ==
    /\ UNCHANGED <<reqVars, rlVars, sigVars>>
    /\ UNCHANGED <<tokVars, whVars, phVars, sendVars, cfgVars, envVars, clsVars>>
    /\ UNCHANGED <<cnVars, clVars>>

\* Lines 64-74 for request q: the acquire, last_exception = None, the loop
\* starts at attempt 0.
CrAcquire(q) ==
    /\ cr_pc[q] = "start"
    /\ cr_last' = store_last_exception(q, "None")
    /\ cr_attempt' = [cr_attempt EXCEPT ![q] = 0]
    /\ cr_pc' = [cr_pc EXCEPT ![q] = "loop"]
    /\ UNCHANGED <<cr_log, cr_result>>
    /\ ConcOthersUnchanged

\* Lines 74-140 for request q: one iteration, its HTTP call meeting r.
CrAttempt(q, r) ==
    /\ cr_pc[q] = "loop"
    /\ cr_attempt[q] < max_retries
    /\ LET it == iteration(r, cr_attempt[q], max_retries, cr_last[q]) IN
       /\ cr_log' = [cr_log EXCEPT ![q] = Append(@, r)]
       /\ cr_last' = store_last_exception(q, it.last_exception)
       /\ \/ /\ it.next = "return"
             /\ cr_result' = [cr_result EXCEPT ![q] = Result("returned", NoError, it.value)]
             /\ cr_pc' = [cr_pc EXCEPT ![q] = "done"]
             /\ UNCHANGED cr_attempt
          \/ /\ it.next = "raise"
             /\ cr_result' = [cr_result EXCEPT ![q] = Result("raised", it.exc, NoBody)]
             /\ cr_pc' = [cr_pc EXCEPT ![q] = "done"]
             /\ UNCHANGED cr_attempt
          \/ /\ it.next = "sleep"
             /\ cr_pc' = [cr_pc EXCEPT ![q] = "sleeping"]
             /\ UNCHANGED <<cr_result, cr_attempt>>
          \/ /\ it.next = "continue"
             /\ cr_attempt' = [cr_attempt EXCEPT ![q] = @ + 1]
             /\ UNCHANGED <<cr_result, cr_pc>>
    /\ ConcOthersUnchanged

\* Lines 122-123 and 130-131 for request q: its sleep returns, `continue`.
CrWake(q) ==
    /\ cr_pc[q] = "sleeping"
    /\ cr_attempt' = [cr_attempt EXCEPT ![q] = @ + 1]
    /\ cr_pc' = [cr_pc EXCEPT ![q] = "loop"]
    /\ UNCHANGED <<cr_last, cr_log, cr_result>>
    /\ ConcOthersUnchanged

\* Lines 142-148 for request q: its loop is exhausted.
CrExhausted(q) ==
    /\ cr_pc[q] = "loop"
    /\ cr_attempt[q] >= max_retries
    /\ cr_result' = [cr_result EXCEPT ![q] = Result("raised", after_loop(cr_last[q]), NoBody)]
    /\ cr_pc' = [cr_pc EXCEPT ![q] = "done"]
    /\ UNCHANGED <<cr_attempt, cr_last, cr_log>>
    /\ ConcOthersUnchanged

NextConc ==
    \/ \E q \in Requests : CrAcquire(q)
    \/ \E q \in Requests, r \in ConcResponses : CrAttempt(q, r)
    \/ \E q \in Requests : CrWake(q)
    \/ \E q \in Requests : CrExhausted(q)

SpecConc == InitConc /\ [][NextConc]_vars

\* What a call of request() alone does when its attempts meet the responses
\* rs in turn, from attempt number att on.
RECURSIVE Alone(_, _, _, _)
Alone(rs, att, mr, le) ==
    IF att >= mr THEN Result("raised", after_loop(le), NoBody)
    ELSE IF rs = <<>> THEN Pending
    ELSE LET it == iteration(Head(rs), att, mr, le) IN
         IF it.next = "return" THEN Result("returned", NoError, it.value)
         ELSE IF it.next = "raise" THEN Result("raised", it.exc, NoBody)
         ELSE Alone(Tail(rs), att + 1, mr, it.last_exception)

\* C21: concurrent requests on one HTTPClient are independent: each makes
\* at most max_retries attempts of its own, and how it ends (the body, or
\* the error with its kind, message and cause) is what the responses to its
\* own attempts determine, whatever the other request met and did.
C21_RequestsIndependent ==
    \A q \in Requests :
        /\ Len(cr_log[q]) <= max_retries
        /\ cr_pc[q] # "done" => cr_result[q] = Pending
        /\ cr_pc[q] = "done" =>
              cr_result[q] = Alone(cr_log[q], 0, max_retries, "None")

\* A has run out of attempts on redirects while B retried a transport
\* failure and then succeeded.
C21_Witness ==
    /\ cr_pc["A"] = "done" /\ cr_pc["B"] = "done"
    /\ max_retries >= 2
    /\ Len(cr_log["A"]) = max_retries
    /\ \A i \in 1..Len(cr_log["A"]) : cr_log["A"][i].status = 304
    /\ cr_result["A"].error.kind = "NetworkError"
    /\ cr_log["B"][1].kind = "neterr"
    /\ cr_result["B"].outcome = "returned"

(***************************************************************************)
(* Cancellation of a request (specification SpecCancel).                   *)
(*                                                                         *)
(* The request is caller TheRequest of the rate limiter; the other callers *)
(* compete with it for permits while it is inside acquire. Cancelling the  *)
(* task raises asyncio.CancelledError at the await where it is suspended:  *)
(* the wait on the semaphore or the sleep inside acquire (line 65, outside *)
(* the try), or the backoff sleep (line 131, inside an except clause).     *)
(* CancelledError derives from BaseException: no `except Exception` of     *)
(* request catches it.                                                     *)
(***************************************************************************)
TheRequest == 1

\* What the attempts of the request meet here.
CancelResponses ==
    {Resp(200, Body(TRUE, TRUE, FALSE, FALSE, None, None, None, None, "a")),
     Resp(304, NotJsonBody),
     NetErr("ConnectError")}

InitCancel ==
    /\ max_retries \in 0..MaxConcRetries
    /\ pc = "start"
    /\ attempt = 0
    /\ last_exception = "None"
    /\ log = <<>>
    /\ resp = NoResponse
    /\ sleeps = <<>>
    /\ acquires = 0
    /\ outcome = "pending"
    /\ error = NoError
    /\ returned = NoBody
    /\ \E n \in 1..MaxRate : RLConstructed(n)
    /\ grant_log = NoGrantLog
    /\ SigAtRest
    /\ AuxAtRest

\* Line 65: the request calls acquire and runs it up to its first wait.
CnEnter ==
    /\ pc = "start"
    /\ RLEnterStep(TheRequest)
    /\ acquires' = acquires + 1
    /\ pc' = "acquiring"
    /\ UNCHANGED <<max_retries, attempt, last_exception, log, resp, sleeps,
                   outcome, error, returned>>
    /\ UNCHANGED <<sigVars, auxVars>>

\* Lines 65-74: acquire returns; last_exception = None and the loop starts.
CnAcquired ==
    /\ pc = "acquiring"
    /\ RLReleaseStep(TheRequest)
    /\ last_exception' = "None"
    /\ attempt' = 0
    /\ pc' = "loop"
    /\ UNCHANGED <<max_retries, log, resp, sleeps, acquires, outcome, error,
                   returned>>
    /\ UNCHANGED <<sigVars, auxVars>>

\* CancelledError leaves request: nothing of request runs after it.
CancelledRaised(where) ==
    /\ pc' = "done"
    /\ outcome' = "raised"
    /\ error' = Foreign("CancelledError")
    /\ cancelled_in' = where
    /\ UNCHANGED <<max_retries, attempt, last_exception, log, resp, sleeps,
                   acquires, returned>>
    /\ UNCHANGED sigVars
    /\ UNCHANGED <<tokVars, whVars, phVars, sendVars, cfgVars, envVars, clsVars>>
    /\ UNCHANGED <<crVars, clVars>>

\* Cancelled while it waits in Semaphore.acquire (line 217): the waiter is
\* taken out of the queue; it holds no permit.
CnCancelWaiting ==
    /\ pc = "acquiring"
    /\ rl_pc[TheRequest] = "waiting"
    /\ LET s    == rl_sem[TheRequest]
           live == {semaphore} \cup
                   {rl_sem[d] : d \in {x \in Callers : x # TheRequest /\ rl_pc[x] # "idle"}}
       IN
       /\ sem_waiters' = [sem_waiters EXCEPT ![s] = SelectSeq(@, LAMBDA w : w # TheRequest)]
       /\ sem_value' = Collect(sem_value, live)
    /\ rl_pc' = [rl_pc EXCEPT ![TheRequest] = "idle"]
    /\ rl_sem' = [rl_sem EXCEPT ![TheRequest] = 0]
    /\ rl_crossed' = [rl_crossed EXCEPT ![TheRequest] = FALSE]
    /\ UNCHANGED <<calls_per_second, elapsed, semaphore, rl_timer, rl_calls, grant_log>>
    /\ CancelledRaised("waiting")

\* A variant of CnCancelHolding: the permit is not given back (acquire and
\* release around the sleep, without `async with`).
CnCancelHolding_leak ==
    /\ pc = "acquiring"
    /\ rl_pc[TheRequest] = "holding"
    /\ rl_pc' = [rl_pc EXCEPT ![TheRequest] = "idle"]
    /\ rl_timer' = [rl_timer EXCEPT ![TheRequest] = 0]
    /\ UNCHANGED <<calls_per_second, elapsed, semaphore, sem_value, sem_waiters,
                   rl_sem, rl_crossed, rl_calls, grant_log>>
    /\ CancelledRaised("holding")

\* Cancelled in the sleep of line 219: `async with` runs __aexit__, which
\* releases the permit, and CancelledError goes on.
CnCancelHolding ==
    /\ pc = "acquiring"
    /\ rl_pc[TheRequest] = "holding"
    /\ aexit(TheRequest)
    /\ CancelledRaised("holding")

\* Cancelled in a backoff sleep (line 131): the request holds no permit.
CnCancelBackoff ==
    /\ pc = "sleeping"
    /\ UNCHANGED rlVars
    /\ CancelledRaised("backoff")

\* The competitors run while the request is inside acquire.
NextCancel ==
    \/ CnEnter
    \/ CnAcquired
    \/ \E r \in CancelResponses : ReqAttempt(r)
    \/ ReqWake
    \/ ReqExhausted
    \/ CnCancelWaiting
    \/ CnCancelHolding
    \/ CnCancelBackoff
    \/ /\ pc \in {"start", "acquiring"}
       /\ \/ \E c \in Callers \ {TheRequest} : RLEnter(c)
          \/ \E c \in Callers \ {TheRequest} : RLRelease(c)
          \/ Tick

SpecCancel == InitCancel /\ [][NextCancel]_vars

Cancelled == cancelled_in # "none"

\* Every permit of every semaphore is either available or held by a caller
\* inside `async with`.
PermitsAccounted ==
    \A s \in SemIds :
        sem_value[s] + Cardinality(HoldersOf(s)) = calls_per_second

\* C22: a cancellation delivered while the request is suspended in acquire
\* or in a backoff sleep aborts it: the caller gets CancelledError, not
\* NetworkError, no HTTP attempt follows, and a permit held at that moment
\* is released (the request is in no queue and every permit is accounted
\* for).
C22_CancellationAborts ==
    /\ [](Cancelled =>
            /\ pc = "done"
            /\ outcome = "raised"
            /\ error.kind = "CancelledError"
            /\ error.kind # "NetworkError"
            /\ rl_pc[TheRequest] = "idle"
            /\ \A s \in SemIds : \A i \in 1..Len(sem_waiters[s]) :
                  sem_waiters[s][i] # TheRequest
            /\ PermitsAccounted)
    /\ [][(Cancelled \/ Cancelled') => (log' = log /\ acquires' = acquires)]_vars

\* The request was cancelled while it held a permit that another caller
\* was waiting for; that caller has the permit now.
C22_Witness ==
    /\ cancelled_in = "holding"
    /\ \E c \in Callers \ {TheRequest} : rl_pc[c] = "holding"
    /\ PermitsAccounted

(***************************************************************************)
(* WhatsAppClient: its credentials and its operations (specification       *)
(* SpecClient).                                                            *)
(*                                                                         *)
(* __init__ stores the four credentials (lines 43-48). An operation that   *)
(* reaches self.http.post ends as HTTPClient.request ends: with the body,  *)
(* or with RateLimitError, APIError or NetworkError; on a closed httpx     *)
(* client the call fails inside the try and ends in NetworkError.          *)
(***************************************************************************)
ClientIds == {<<"1", "2">>, <<"9">>}

AccessTokens == {<<"t">>, <<"u">>}

\* Header values: none, a well-formed one, one outside ASCII.
ClientSignatures ==
    {<<>>, Sha256Prefix \o <<"0", "0">>, Sha256Prefix \o <<"a", "U+00E9">>}

ClientBodies == {<<>>, <<"h", "i">>}

InitClient ==
    /\ phone_number_id \in ClientIds
    /\ access_token \in AccessTokens
    /\ app_secret \in Secrets
    /\ webhook_verify_token \in {None} \cup {Some(t) : t \in TokStrings}
    /\ cl_op = "none"
    /\ cl_result = "none"
    /\ cl_closed = FALSE
    /\ sig_signature = <<>> /\ sig_payload = <<>> /\ sig_outcome = "none"
    /\ tok_token = <<>> /\ tok_outcome = "none"
    /\ ReqAtRest /\ RLAtRest
    /\ WhAtRest /\ PhAtRest /\ SendAtRest /\ CfgAtRest /\ EnvAtRest /\ ClsAtRest
    /\ CrAtRest /\ CnAtRest

\* How `await self.http.post(...)` ends.
PostOutcomes ==
    IF cl_closed THEN {"NetworkError"}
    ELSE {"returned", "RateLimitError", "APIError", "NetworkError"}

\* No operation assigns a credential.
CredentialsKept ==
    UNCHANGED <<phone_number_id, access_token, app_secret, webhook_verify_token>>

ClientOthersUnchanged ==
    /\ UNCHANGED <<sig_signature, sig_payload, sig_outcome, tok_token, tok_outcome>>
    /\ UNCHANGED <<reqVars, rlVars>>
    /\ UNCHANGED <<whVars, phVars, sendVars, cfgVars, envVars, clsVars>>
    /\ UNCHANGED <<crVars, cnVars>>

\* The operation op has ended with res.
ClientDid(op, res) ==
    /\ cl_op' = op
    /\ cl_result' = res
    /\ CredentialsKept
    /\ ClientOthersUnchanged

\* send_text (lines 161-213).
ClSendText(to, body) ==
    /\ LET v == send_text(to, body) IN
       IF v = "post"
       THEN \E res \in PostOutcomes : ClientDid("send_text", res)
       ELSE ClientDid("send_text", v)
    /\ UNCHANGED cl_closed

\* send_image (lines 215-271).
ClSendImage(to, image, caption) ==
    /\ LET v == send_image(to, image, caption) IN
       IF v = "post"
       THEN \E res \in PostOutcomes : ClientDid("send_image", res)
       ELSE ClientDid("send_image", v)
    /\ UNCHANGED cl_closed

\* mark_as_read (lines 273-295): the payload is posted as it is.
ClMarkAsRead ==
    /\ \E res \in PostOutcomes : ClientDid("mark_as_read", res)
    /\ UNCHANGED cl_closed

\* validate_webhook_signature (lines 110-143).
ClValidateSignature(signature, payload) ==
    /\ ClientDid("validate_webhook_signature",
                 validate_webhook_signature(app_secret, signature, payload))
    /\ UNCHANGED cl_closed

\* verify_webhook_token (lines 145-159).
ClVerifyToken(token) ==
    /\ ClientDid("verify_webhook_token",
                 IF verify_webhook_token(webhook_verify_token, token)
                 THEN "True" ELSE "False")
    /\ UNCHANGED cl_closed

\* A variant of ClClose that forgets the access token when it closes.
ClClose_forget ==
    /\ cl_closed' = TRUE
    /\ cl_op' = "close"
    /\ cl_result' = "returned"
    /\ access_token' = <<>>
    /\ UNCHANGED <<phone_number_id, app_secret, webhook_verify_token>>
    /\ ClientOthersUnchanged

\* close (lines 319-321): await self.http.close().
ClClose ==
    /\ cl_closed' = TRUE
    /\ ClientDid("close", "returned")

NextClient ==
    \/ \E to \in SendPhones, body \in ClientBodies : ClSendText(to, body)
    \/ \E to \in SendPhones, image \in SendImages, caption \in SendCaptions :
          ClSendImage(to, image, caption)
    \/ ClMarkAsRead
    \/ \E signature \in ClientSignatures, payload \in Payloads :
          ClValidateSignature(signature, payload)
    \/ \E token \in TokStrings : ClVerifyToken(token)
    \/ ClClose

SpecClient == InitClient /\ [][NextClient]_vars

\* C23: the credentials are immutable once the client is constructed: no
\* operation of the client, whether it returns or raises, changes
\* phone_number_id, access_token, app_secret or webhook_verify_token.
C23_CredentialsImmutable ==
    [][/\ phone_number_id' = phone_number_id
       /\ access_token' = access_token
       /\ app_secret' = app_secret
       /\ webhook_verify_token' = webhook_verify_token]_vars

\* A client with all four credentials has been closed and a later send has
\* failed.
C23_Witness ==
    /\ cl_closed
    /\ cl_op = "send_image"
    /\ cl_result = "NetworkError"
    /\ ~secret_missing(app_secret)
    /\ truthy(webhook_verify_token)

====
